---- MODULE Spec2Model ----
(***************************************************************************)
(* A model of go-radit: the flat (PEN) registry scanner, the nested (SMI)  *)
(* registry walker, the identifier legalizer and the Import driver, over   *)
(* the OID tree store the package builds on.                               *)
(*                                                                         *)
(* Strings are sequences of one-character strings, so that trimming,       *)
(* scanning and case folding are computed and not assumed.                 *)
(***************************************************************************)
EXTENDS Integers, Sequences, FiniteSets, TLC

VARIABLES
    dit,        \* *common.DIT: [tree, regs, aths]
    scanpc,     \* LoadPENRegistry: "header", "scan" or "done"
    skipped,    \* LoadPENRegistry: header lines consumed so far (i of the skip loop)
    ent,        \* LoadPENRegistry: the record being accumulated
    Numbers,    \* penRegistry.Numbers: the records emitted so far
    fed,        \* the lines the scan loop has read so far, in order (history)
    err,        \* the error the operation under way returned ("" is nil)
    lpc,        \* legalizeIdentifier: "call" before it ran, "ret" after
    lin,        \* legalizeIdentifier: its argument
    lout,       \* legalizeIdentifier: its result
    imppc,      \* Import: "idle" before the call, the key it is at, "done" after
    imp,        \* Import: its ImportList
    opened,     \* the keys whose loader Import has called, in order (history)
    start,      \* the DIT as it was when Import was called (history)
    before,     \* the DIT as it was when the last loader was called (history)
    smiPeople,  \* smiRegistry.people of the load under way: key -> registrant
    pending,    \* the registries the walk of the load under way has yet to
                \* visit, in the order it visits them
    last        \* the last call on the tree store: what it was given and
                \* what the tree held before it (history)

scanvars == <<scanpc, skipped, ent, Numbers, fed>>

legalvars == <<lpc, lin, lout>>

impvars == <<imppc, imp, opened, start, before, smiPeople, pending>>

vars == <<dit, err, scanvars, legalvars, impvars, last>>

----------------------------------------------------------------------------
(* Bounds *)

\* lines the flat-registry scan loop may read after the header
MaxLines == 8

\* symbols of a name handed to legalizeIdentifier
MaxNameLen == 4

\* calls on the tree store (primings, the supplement) in one behaviour
MaxCalls == 3

\* files LoadSMIRegistry is given one after another in one behaviour
MaxLoads == 2

----------------------------------------------------------------------------
(* Strings *)

Digits == {"0", "1", "2", "3", "4", "5", "6", "7", "8", "9"}

DigitVal(c) ==
    CASE c = "0" -> 0 [] c = "1" -> 1 [] c = "2" -> 2 [] c = "3" -> 3
      [] c = "4" -> 4 [] c = "5" -> 5 [] c = "6" -> 6 [] c = "7" -> 7
      [] c = "8" -> 8 [] c = "9" -> 9

isDigit(c) == c \in Digits

isSpace(c) == c = " "

RECURSIVE trimLeftSpace(_)
trimLeftSpace(s) ==
    IF s # <<>> /\ isSpace(Head(s)) THEN trimLeftSpace(Tail(s)) ELSE s

RECURSIVE trimRightSpace(_)
trimRightSpace(s) ==
    IF s # <<>> /\ isSpace(s[Len(s)])
    THEN trimRightSpace(SubSeq(s, 1, Len(s) - 1))
    ELSE s

\* strings.TrimSpace
trimS(s) == trimRightSpace(trimLeftSpace(s))

\* the decimal value of the leading run of digits of s, acc being the value so far
RECURSIVE leadingDigits(_, _)
leadingDigits(s, acc) ==
    IF s # <<>> /\ isDigit(Head(s))
    THEN leadingDigits(Tail(s), acc * 10 + DigitVal(Head(s)))
    ELSE acc

\* fmt.Sscanf(line, "%d", &v): leading spaces are skipped and the leading run
\* of digits is stored; with no digit there the scan fails and v keeps old.
Sscanf(line, old) ==
    LET s == trimLeftSpace(line)
    IN  IF s # <<>> /\ isDigit(Head(s)) THEN leadingDigits(s, 0) ELSE old

Lower ==
    {"a", "b", "c", "d", "e", "f", "g", "h", "i", "j", "k", "l", "m",
     "n", "o", "p", "q", "r", "s", "t", "u", "v", "w", "x", "y", "z"}

Upper ==
    {"A", "B", "C", "D", "E", "F", "G", "H", "I", "J", "K", "L", "M",
     "N", "O", "P", "Q", "R", "S", "T", "U", "V", "W", "X", "Y", "Z"}

UpperSeq == <<"A", "B", "C", "D", "E", "F", "G", "H", "I", "J", "K", "L", "M", "N", "O", "P", "Q", "R", "S", "T", "U", "V", "W", "X", "Y", "Z">>
LowerSeq == <<"a", "b", "c", "d", "e", "f", "g", "h", "i", "j", "k", "l", "m", "n", "o", "p", "q", "r", "s", "t", "u", "v", "w", "x", "y", "z">>

\* the phrase "retained by" is carried as one symbol of a string, in the two
\* spellings the registries use
sRetainedBy == "retained by"

sRetainedByTitle == "Retained By"

\* strings.ToLower, symbol by symbol
lcChar(c) ==
    IF c \in Upper
    THEN LowerSeq[CHOOSE i \in 1..Len(UpperSeq) : UpperSeq[i] = c]
    ELSE IF c = sRetainedByTitle THEN sRetainedBy ELSE c

lc(s) == [i \in 1..Len(s) |-> lcChar(s[i])]

\* strings.Contains(s, c) for a one-symbol c
ctns(s, c) == \E i \in 1..Len(s) : s[i] = c

\* strings.ReplaceAll(s, old, new) for a one-symbol old; new is a string
RECURSIVE rplc(_, _, _)
rplc(s, old, new) ==
    IF s = <<>> THEN <<>>
    ELSE (IF Head(s) = old THEN new ELSE <<Head(s)>>) \o rplc(Tail(s), old, new)

\* strings.Split(s, sep) for a one-symbol sep: cur is the piece being read
RECURSIVE splitFrom(_, _, _)
splitFrom(s, sep, cur) ==
    IF s = <<>> THEN <<cur>>
    ELSE IF Head(s) = sep THEN <<cur>> \o splitFrom(Tail(s), sep, <<>>)
    ELSE splitFrom(Tail(s), sep, Append(cur, Head(s)))

split(s, sep) == splitFrom(s, sep, <<>>)

\* strings.HasSuffix
hasSfx(s, sfx) ==
    Len(s) >= Len(sfx) /\ SubSeq(s, Len(s) - Len(sfx) + 1, Len(s)) = sfx

\* common.IsNumber
IsNumber(s) == Len(s) > 0 /\ \A i \in 1..Len(s) : isDigit(s[i])

\* radir.IsNumericOID: two or more number forms joined by dots
IsNumericOID(s) ==
    LET sp == split(s, ".")
    IN  Len(sp) >= 2 /\ \A i \in 1..Len(sp) : IsNumber(sp[i])

\* radir.IsIdentifier, the identifier grammar: a lower-case letter, then
\* letters, digits and hyphens; no hyphen last, no two hyphens in a row
IsIdentifier(s) ==
    /\ Len(s) > 0
    /\ s[1] \in Lower
    /\ \A i \in 1..Len(s) : s[i] \in Lower \cup Upper \cup Digits \cup {"-"}
    /\ s[Len(s)] # "-"
    /\ \A i \in 1..(Len(s) - 1) : ~(s[i] = "-" /\ s[i + 1] = "-")


----------------------------------------------------------------------------
(* The identifier legalizer: legalizeIdentifier *)

\* i2i, the static override table: names no rule of the cascade repairs,
\* each with its curated identifier
i2i == (<<"1", "a">> :> <<"a", "-", "1">>) @@ (<<"B", "_">> :> <<"b">>)

\* strings.CutPrefix(s, "retained by")
cutPfxRetained(s) ==
    IF s # <<>> /\ Head(s) = sRetainedBy
    THEN [cut |-> Tail(s), found |-> TRUE]
    ELSE [cut |-> s, found |-> FALSE]

\* what the "retained by" step leaves in `in`: the trimmed remainder when
\* the lower-cased input begins with the phrase, the input otherwise
retainedRest(in) ==
    IF ctns(lc(in), sRetainedBy) /\ cutPfxRetained(lc(in)).found
    THEN trimS(cutPfxRetained(lc(in)).cut)
    ELSE in

\* the dot-removal tweak without its grammar check
legalizeTweakUnchecked(word) ==
    IF IsIdentifier(rplc(lc(word), "_", <<"-">>))
    THEN rplc(lc(word), "_", <<"-">>)
    ELSE rplc(lc(word), ".", <<>>)

\* the last two steps of the cascade, on the single word left: fold the case
\* and swap underscores for hyphens, else fold the case and drop the dots
legalizeTweak(word) ==
    IF IsIdentifier(rplc(lc(word), "_", <<"-">>))
    THEN rplc(lc(word), "_", <<"-">>)
    ELSE IF IsIdentifier(rplc(lc(word), ".", <<>>))
         THEN rplc(lc(word), ".", <<>>)
         ELSE <<>>

RECURSIVE legalizeIdentifier(_)
RECURSIVE legalizeFirst(_)

\* `for _, try := range ins`: the first word that legalizes, or nothing
legalizeFirst(ins) ==
    IF ins = <<>> THEN <<>>
    ELSE IF IsIdentifier(legalizeIdentifier(Head(ins)))
         THEN legalizeIdentifier(Head(ins))
         ELSE legalizeFirst(Tail(ins))

legalizeIdentifier(in) ==
    IF IsIdentifier(in) \/ Len(in) = 0 THEN in
    ELSE IF IsIdentifier(retainedRest(in)) THEN retainedRest(in)
    ELSE LET in2 == retainedRest(in)
             ins == split(trimS(in2), " ")
         IN  IF in2 \in DOMAIN i2i THEN i2i[in2]
             ELSE IF Len(ins) > 1 THEN legalizeFirst(ins)
             ELSE legalizeTweak(ins[1])

----------------------------------------------------------------------------
(* The tree store: registrations, held by reference.  dit.regs[i] is the   *)
(* registration with reference i; NoReg is the nil reference.              *)

NoReg == 0

Min(S) == CHOOSE x \in S : \A y \in S : x <= y

\* a fresh registration with number form nf and identifier id beneath par
NewReg(nf, id, par, dot) ==
    [n |-> nf, ident |-> id, parent |-> par, dot |-> dot, kids |-> <<>>,
     status |-> <<>>, range |-> <<>>, uri |-> <<>>, info |-> <<>>,
     desc |-> <<>>, notation |-> <<>>, auths |-> <<>>,
     cO |-> <<>>, cCN |-> <<>>, cEmail |-> <<>>]

\* Registrations.Get: the first child of p bearing number form nf, or nil
ChildGet(regs, p, nf) ==
    IF p = NoReg THEN NoReg
    ELSE LET ks == regs[p].kids
             at == {i \in 1..Len(ks) : regs[ks[i]].n = nf}
         IN  IF at = {} THEN NoReg ELSE ks[Min(at)]

\* a registration appended beneath p, whatever p already holds
PushChild(regs, p, nf, id) ==
    LET c == Len(regs) + 1
    IN  [regs |-> Append([regs EXCEPT ![p].kids = Append(@, c)],
                         NewReg(nf, id, p, Append(regs[p].dot, nf))),
         reg  |-> c]

\* Registration.NewChild: a child with number form nf made and appended
\* beneath p; callers that want the child p already has ask Children().Get
\* first.  A number form that is no unsigned number yields nil.
NewChild(regs, p, nf, id) ==
    IF p = NoReg \/ nf < 0 THEN [regs |-> regs, reg |-> NoReg]
    ELSE PushChild(regs, p, nf, id)

\* Registration.Walk: the registration at the dotted path, or nil; never creates.
RECURSIVE WalkFrom(_, _, _)
WalkFrom(regs, p, arcs) ==
    IF p = NoReg \/ arcs = <<>> THEN p
    ELSE WalkFrom(regs, ChildGet(regs, p, Head(arcs)), Tail(arcs))

Walk(regs, root, dot) ==
    IF root = NoReg \/ dot = <<>> \/ Head(dot) # regs[root].n THEN NoReg
    ELSE WalkFrom(regs, root, Tail(dot))

\* one arc of the descent of Allocate: the child p has, or a new one
GetOrCreate(regs, p, nf, id) ==
    IF ChildGet(regs, p, nf) # NoReg
    THEN [regs |-> regs, reg |-> ChildGet(regs, p, nf)]
    ELSE NewChild(regs, p, nf, id)

\* the descent of Allocate: nanf is what is left of the path, as a sequence
\* of [id, n]; every missing registration is created on the way down.
RECURSIVE AllocateFrom(_, _, _)
AllocateFrom(regs, p, nanf) ==
    IF nanf = <<>> THEN [regs |-> regs, reg |-> p]
    ELSE LET r == GetOrCreate(regs, p, Head(nanf).n, Head(nanf).id)
         IN  IF r.reg = NoReg THEN [regs |-> regs, reg |-> NoReg]
             ELSE AllocateFrom(r.regs, r.reg, Tail(nanf))

\* a notation is well formed when it is closed, not empty, and every arc of
\* it is an unsigned number
WellFormed(oid) ==
    /\ oid.closed
    /\ oid.nanf # <<>>
    /\ \A i \in 1..Len(oid.nanf) : oid.nanf[i].n >= 0

\* Registration.Allocate on a root: get-or-create along the whole path, the
\* leaf returned; a malformed path, or one of another root, yields nil and
\* creates nothing.
Allocate(regs, root, oid) ==
    IF root = NoReg \/ ~WellFormed(oid) \/ oid.nanf[1].n # regs[root].n
    THEN [regs |-> regs, reg |-> NoReg]
    ELSE AllocateFrom(regs, root, Tail(oid.nanf))

\* a dotted path as Allocate takes it: number forms only
Numeric(dot) ==
    [closed |-> TRUE, nanf |-> [i \in 1..Len(dot) |-> [id |-> <<>>, n |-> dot[i]]]]

\* X680().DotNotation()
DotNotation(regs, r) == IF r = NoReg THEN <<>> ELSE regs[r].dot

----------------------------------------------------------------------------
(* The priming catalogues *)

\* identifiers of the catalogues and of the roots, spelled out
NoId == <<>>
id_data == <<"d", "a", "t", "a">>
id_dod == <<"d", "o", "d">>
id_ds == <<"d", "s">>
id_enterprise == <<"e", "n", "t", "e", "r", "p", "r", "i", "s", "e">>
id_identified_organization == <<"i", "d", "e", "n", "t", "i", "f", "i", "e", "d", "-", "o", "r", "g", "a", "n", "i", "z", "a", "t", "i", "o", "n">>
id_internet == <<"i", "n", "t", "e", "r", "n", "e", "t">>
id_internet_dsp == <<"i", "n", "t", "e", "r", "n", "e", "t", "-", "d", "s", "p">>
id_iso == <<"i", "s", "o">>
id_itu_t == <<"i", "t", "u", "-", "t">>
id_joint_iso_itu_t == <<"j", "o", "i", "n", "t", "-", "i", "s", "o", "-", "i", "t", "u", "-", "t">>
id_oc == <<"o", "c">>
id_pilot == <<"p", "i", "l", "o", "t">>
id_private == <<"p", "r", "i", "v", "a", "t", "e">>
id_pss == <<"p", "s", "s">>
id_recommendation == <<"r", "e", "c", "o", "m", "m", "e", "n", "d", "a", "t", "i", "o", "n">>
id_ucl == <<"u", "c", "l">>

\* one NameAndNumberForm of a notation
NaNF(id, n) == [id |-> id, n |-> n]

\* a notation: closed is FALSE when its closing brace is missing
Notation(nanf) == [closed |-> TRUE, nanf |-> nanf]
Unclosed(nanf) == [closed |-> FALSE, nanf |-> nanf]

\* {itu-t(0) recommendation(0) <id>(<n>)}
Rec(id, n) == Notation(<<NaNF(id_itu_t, 0), NaNF(id_recommendation, 0), NaNF(id, n)>>)

\* itu-t(0) data(9) pss(2342) ucl(19200300), the prefix of the pilot entries
uclPfx == <<NaNF(id_itu_t, 0), NaNF(id_data, 9), NaNF(id_pss, 2342), NaNF(id_ucl, 19200300)>>

\* itu.Tree
ituTree ==
    <<
      Rec(<<"a">>, 1),
      Rec(<<"b">>, 2),
      Rec(<<"c">>, 3),
      Rec(<<"d">>, 4),
      Rec(<<"e">>, 5),
      Rec(<<"f">>, 6),
      Rec(<<"g">>, 7),
      Rec(<<"h">>, 8),
      Rec(<<"i">>, 9),
      Rec(<<"j">>, 10),
      Rec(<<"k">>, 11),
      Rec(<<"l">>, 12),
      Rec(<<"m">>, 13),
      Rec(<<"n">>, 14),
      Rec(<<"o">>, 15),
      Rec(<<"p">>, 16),
      Rec(<<"q">>, 17),
      Rec(<<"r">>, 18),
      Rec(<<"s">>, 19),
      Rec(<<"t">>, 20),
      Rec(<<"u">>, 21),
      Rec(<<"v">>, 22),
      Rec(<<"w">>, 23),
      Rec(<<"x">>, 24),
      Rec(<<"y">>, 25),
      Rec(<<"z">>, 26),
      Notation(<<NaNF(id_itu_t, 0), NaNF(<<"q", "u", "e", "s", "t", "i", "o", "n">>, 1)>>),
      Notation(<<NaNF(id_itu_t, 0), NaNF(<<"a", "d", "m", "i", "n", "i", "s", "t", "r", "a", "t", "o", "r">>, 2)>>),
      Notation(<<NaNF(id_itu_t, 0), NaNF(<<"n", "e", "t", "w", "o", "r", "k", "-", "o", "p", "e", "r", "a", "t", "o", "r">>, 3)>>),
      Notation(<<NaNF(id_itu_t, 0), NaNF(<<"i", "d", "e", "n", "t", "i", "t", "i", "e", "d", "-", "o", "r", "g", "a", "n", "i", "z", "a", "t", "i", "o", "n">>, 4)>>),
      Notation(<<NaNF(id_itu_t, 0), NaNF(<<"r", "-", "r", "e", "c", "o", "m", "m", "e", "n", "d", "a", "t", "i", "o", "n">>, 5)>>),
      Notation(uclPfx \o <<NaNF(<<"q", "u", "i", "p", "u">>, 99)>>),
      Notation(uclPfx \o <<NaNF(id_pilot, 100), NaNF(<<"p", "i", "l", "o", "t", "A", "t", "t", "r", "i", "b", "u", "t", "e", "T", "y", "p", "e">>, 1)>>),
      Unclosed(uclPfx \o <<NaNF(id_pilot, 100), NaNF(<<"p", "i", "l", "o", "t", "A", "t", "t", "r", "i", "b", "u", "t", "e", "S", "y", "n", "t", "a", "x">>, 3)>>),
      Notation(uclPfx \o <<NaNF(id_pilot, 100), NaNF(<<"p", "i", "l", "o", "t", "O", "b", "j", "e", "c", "t", "C", "l", "a", "s", "s">>, 4)>>),
      Notation(uclPfx \o <<NaNF(id_pilot, 100), NaNF(<<"p", "i", "l", "o", "t", "G", "r", "o", "u", "p", "s">>, 10)>>),
      Notation(uclPfx \o <<NaNF(id_internet_dsp, 107), NaNF(<<"a", "t">>, 1)>>),
      Notation(uclPfx \o <<NaNF(id_internet_dsp, 107), NaNF(id_oc, 2)>>),
      Notation(uclPfx \o <<NaNF(id_internet_dsp, 107), NaNF(id_oc, 2), NaNF(NoId, 1)>>),
      Notation(uclPfx \o <<NaNF(id_internet_dsp, 107), NaNF(id_oc, 2), NaNF(NoId, 1), NaNF(NoId, 1)>>),
      Notation(uclPfx \o <<NaNF(id_internet_dsp, 107), NaNF(id_oc, 2), NaNF(NoId, 1), NaNF(NoId, 2)>>),
      Notation(uclPfx \o <<NaNF(id_internet_dsp, 107), NaNF(id_oc, 2), NaNF(NoId, 1), NaNF(NoId, 3)>>),
      Notation(uclPfx \o <<NaNF(id_internet_dsp, 107), NaNF(id_oc, 2), NaNF(NoId, 1), NaNF(NoId, 4)>>),
      Notation(uclPfx \o <<NaNF(id_internet_dsp, 107), NaNF(id_oc, 2), NaNF(NoId, 1), NaNF(NoId, 5)>>),
      Notation(uclPfx \o <<NaNF(id_internet_dsp, 107), NaNF(id_oc, 2), NaNF(NoId, 2)>>),
      Notation(uclPfx \o <<NaNF(id_internet_dsp, 107), NaNF(<<"a", "c", "-", "i", "d", "s", "p">>, 3)>>),
      Notation(uclPfx \o <<NaNF(id_internet_dsp, 107), NaNF(<<"a", "s", "-", "i", "d", "s", "p">>, 4)>>),
      Notation(uclPfx \o <<NaNF(id_internet_dsp, 107), NaNF(<<"a", "s", "e", "-", "r", "e", "p", "l", "i", "c", "a", "t", "i", "o", "n">>, 5)>>),
      Notation(uclPfx \o <<NaNF(<<"r", "f", "c", "-", "9", "8", "7", "-", "8", "8">>, 200)>>)
    >>

\* entASNPfx, closed: the notation of 1.3.6.1.4.1
entASN ==
    Notation(<<NaNF(id_iso, 1), NaNF(id_identified_organization, 3), NaNF(id_dod, 6),
               NaNF(id_internet, 1), NaNF(id_private, 4), NaNF(id_enterprise, 1)>>)

entDotPfx == <<1, 3, 6, 1, 4, 1>>

\* iso.Tree
isoTree == << entASN >>

\* jii.Tree
jiiTree == << Notation(<<NaNF(id_joint_iso_itu_t, 2), NaNF(id_ds, 5)>>) >>

\* JesseOID: the curated supplement beneath 1.3.6.1.4.1.56521
JesseOID ==
    << Numeric(entDotPfx \o <<56521, 101>>),
       Numeric(entDotPfx \o <<56521, 101, 2>>),
       Numeric(entDotPfx \o <<56521, 101, 3>>) >>

----------------------------------------------------------------------------
(* common.DIT *)

Profiles == {"dedicated", "combined"}

\* NewDIT(profile)
NewDIT(profile) ==
    [tree |-> <<NoReg, NoReg, NoReg>>, regs |-> <<>>, aths |-> <<>>,
     profile |-> profile]

\* the root with number form n, made on first use
MakeRoot(d, n, id) ==
    IF d.tree[n + 1] # NoReg THEN d
    ELSE [d EXCEPT !.regs = Append(@, NewReg(n, id, NoReg, <<n>>)),
                   !.tree[n + 1] = Len(d.regs) + 1]

ITUT(d) == MakeRoot(d, 0, id_itu_t)

ISO(d) == MakeRoot(d, 1, id_iso)

JointISOITUT(d) == MakeRoot(d, 2, id_joint_iso_itu_t)

\* DIT.Root(n), n in 0..2
Root(d, n) == CASE n = 0 -> ITUT(d) [] n = 1 -> ISO(d) [] n = 2 -> JointISOITUT(d)

\* an allocation that makes the last arc of a path anew beneath the root,
\* whatever the tree holds
AllocateAfresh(regs, root, oid) ==
    IF root = NoReg \/ ~WellFormed(oid) THEN [regs |-> regs, reg |-> NoReg]
    ELSE NewChild(regs, root, oid.nanf[Len(oid.nanf)].n, oid.nanf[Len(oid.nanf)].id)

\* a Prime that allocates afresh
PrimeOneAfresh(d, n, node) ==
    [d EXCEPT !.regs = AllocateAfresh(d.regs, d.tree[n + 1], node).regs]

\* what Prime does with one node of the catalogue: the result of Allocate
\* is dropped, its effect on the tree kept
PrimeOne(d, n, node) ==
    [d EXCEPT !.regs = Allocate(d.regs, d.tree[n + 1], node).regs]

RECURSIVE PrimeAll(_, _, _)
PrimeAll(d, n, nodes) ==
    IF nodes = <<>> THEN d
    ELSE PrimeAll(PrimeOne(d, n, Head(nodes)), n, Tail(nodes))

\* DIT.Prime(n, nodes...)
Prime(d, n, nodes) ==
    IF 0 <= n /\ n <= 2 THEN PrimeAll(Root(d, n), n, nodes) ELSE d

----------------------------------------------------------------------------
(* Registrants *)

\* Profile().NewRegistrant(): key and kind record what the registrant was
\* made for (a person ID, an expert, a PEN record)
NewRegistrant(key, kind) ==
    [key |-> key, kind |-> kind, cn |-> <<>>, o |-> <<>>, email |-> <<>>,
     uri |-> <<>>, desc |-> <<>>]

\* Registrants().Push: the reference of the registrant pushed is its place
\* in the collection
Push(d, athy) == [d EXCEPT !.aths = Append(@, athy)]

\* X660().SetCurrentAuthorities(dn)
SetCurrentAuthorities(regs, r, dn) ==
    IF r = NoReg THEN regs ELSE [regs EXCEPT ![r].auths = Append(@, dn)]

----------------------------------------------------------------------------
(* The flat registry applied to the tree: penRegistry.unmarshal *)

sNone == << "---none---" >>

\* a field is set only when it is neither empty nor ---none---
Given(field) == field # sNone /\ field # <<>>

\* pen.handleRegistrant
handleRegistrant(d, r, child) ==
    IF d.profile = "dedicated"
    THEN LET dn   == Len(d.aths) + 1
             a0   == NewRegistrant(<<>>, "pen")
             athy == [a0 EXCEPT
                        !.o     = IF Given(r.Name) THEN r.Name ELSE @,
                        !.desc  = IF Given(r.Name) THEN r.Name ELSE @,
                        !.cn    = IF Given(r.Contact) THEN r.Contact ELSE @,
                        !.email = IF Given(r.Email) THEN r.Email ELSE @]
             regs1 == SetCurrentAuthorities(d.regs, child, dn)
             regs2 == IF child # NoReg /\ Given(r.Name)
                      THEN [regs1 EXCEPT ![child].desc = r.Name] ELSE regs1
         IN  [Push(d, athy) EXCEPT !.regs = regs2]
    ELSE IF d.profile = "combined" /\ child # NoReg
    THEN [d EXCEPT
            !.regs[child].cO     = IF Given(r.Name) THEN r.Name ELSE @,
            !.regs[child].desc   = IF Given(r.Name) THEN r.Name ELSE @,
            !.regs[child].cCN    = IF Given(r.Contact) THEN r.Contact ELSE @,
            !.regs[child].cEmail = IF Given(r.Email) THEN r.Email ELSE @]
    ELSE d

RECURSIVE AllocateAll(_, _, _)
AllocateAll(regs, root, oids) ==
    IF oids = <<>> THEN regs
    ELSE AllocateAll(Allocate(regs, root, Head(oids)).regs, root, Tail(oids))

\* penRegistry.loadJesseCoretta
loadJesseCoretta(d) ==
    LET d1 == ISO(d)
    IN  [d1 EXCEPT !.regs = AllocateAll(d1.regs, d1.tree[2], JesseOID)]

JesseDecimal == 56521

\* the body of `for _, ent := range r.Numbers`
penOne(d, parent, e) ==
    LET nc == NewChild(d.regs, parent, e.Decimal, <<>>)
        d1 == handleRegistrant([d EXCEPT !.regs = nc.regs], e, nc.reg)
    IN  IF nc.reg # NoReg /\ d1.regs[nc.reg].n = JesseDecimal
        THEN loadJesseCoretta(d1)
        ELSE d1

RECURSIVE penAll(_, _, _)
penAll(d, parent, nums) ==
    IF nums = <<>> THEN d
    ELSE penAll(penOne(d, parent, Head(nums)), parent, Tail(nums))

NoErr == ""

ErrNotPrimed == "Missing 1.3.6.1.4.1 parent; DIT must be primed before use"

\* `{` + entASNPfx + `}`: entASNPfx opens a brace itself, so the notation
\* starts with two
entASNBraced == << NaNF(<<"{">>, 0) >> \o entASN.nanf

\* penRegistry.unmarshal: [d, err]
penUnmarshal(d, nums) ==
    LET d1     == ISO(d)
        parent == Walk(d1.regs, d1.tree[2], entDotPfx)
        d2     == IF parent # NoReg /\ d1.regs[parent].notation = <<>>
                  THEN [d1 EXCEPT !.regs[parent].notation = entASNBraced]
                  ELSE d1
    IN  IF parent = NoReg
        THEN [d |-> d1, err |-> ErrNotPrimed]
        ELSE [d |-> penAll(d2, parent, nums), err |-> NoErr]

----------------------------------------------------------------------------
(* Cross-references: xref.process *)

ucChar(c) ==
    IF c \in Lower
    THEN UpperSeq[CHOOSE i \in 1..Len(LowerSeq) : LowerSeq[i] = c]
    ELSE c

\* strings.ToUpper
uc(s) == [i \in 1..Len(s) |-> ucChar(s[i])]

\* strings.EqualFold
eq(a, b) == lc(a) = lc(b)

\* common.RemoveNL: every line feed becomes the two characters \n
RemoveNL(in) == rplc(in, "\n", <<"\\", "n">>)

isWHSP(c) == c = " " \/ c = "\t"

\* the loop of CondenseWHSP: blank tells that the previous character was blank
RECURSIVE condense(_, _)
condense(b, blank) ==
    IF b = <<>> THEN <<>>
    ELSE IF isWHSP(Head(b))
         THEN (IF blank THEN <<>> ELSE <<" ">>) \o condense(Tail(b), TRUE)
         ELSE <<Head(b)>> \o condense(Tail(b), FALSE)

\* common.CondenseWHSP
CondenseWHSP(b) == condense(trimS(b), FALSE)

RFCURIPrefix == << "https://datatracker.ietf.org/doc/html/" >>

RFCErrataPrefix == << "https://www.rfc-editor.org/errata_search.php?eid=" >>

IANAAssignmentsPrefix == << "https://iana.org/assignments/" >>

sObsolete == <<"o", "b", "s", "o", "l", "e", "t", "e">>

OBSOLETE == << "OBSOLETE" >>

sNotDefined == << "Not Defined ?" >>

sOne == <<"1">>

\* Supplement().SetURI, SetStatus, SetInfo, SetRange, SetDescription and
\* X680().SetIdentifier: nothing is set on a nil registration
SetURI(regs, r, v) == IF r = NoReg THEN regs ELSE [regs EXCEPT ![r].uri = v]

SetStatus(regs, r, v) == IF r = NoReg THEN regs ELSE [regs EXCEPT ![r].status = v]

SetInfo(regs, r, v) == IF r = NoReg THEN regs ELSE [regs EXCEPT ![r].info = v]

SetRange(regs, r, v) == IF r = NoReg THEN regs ELSE [regs EXCEPT ![r].range = v]

SetDescription(regs, r, v) == IF r = NoReg THEN regs ELSE [regs EXCEPT ![r].desc = v]

SetIdentifier(regs, r, v) == IF r = NoReg THEN regs ELSE [regs EXCEPT ![r].ident = v]

Identifier(regs, r) == IF r = NoReg THEN <<>> ELSE regs[r].ident

\* xref.processDataUsers
processDataUsers(regs, reg, xr) ==
    IF xr.Data = <<>> THEN regs
    ELSE CASE xr.Type \in {"rfc", "draft"} ->
                SetURI(regs, reg, RFCURIPrefix \o xr.Data \o <<" ">> \o uc(xr.Data))
           [] xr.Type = "rfc-errata" ->
                SetURI(regs, reg, RFCErrataPrefix \o xr.Data \o <<" Errata ID ">> \o xr.Data)
           [] xr.Type = "uri" ->
                IF xr.Content # <<>>
                THEN SetURI(regs, reg, xr.Data \o <<" ">> \o xr.Content)
                ELSE regs
           [] xr.Type = "note" ->
                IF xr.Data = sOne
                THEN SetStatus(regs, reg, OBSOLETE)
                ELSE SetInfo(regs, reg, xr.Data)
           [] OTHER -> regs

\* xref.processContentUsers
processContentUsers(regs, reg, xr) ==
    IF xr.Content = sNotDefined \/ xr.Content = <<>> THEN regs
    ELSE CASE xr.Type = "registry" -> SetInfo(regs, reg, RemoveNL(xr.Content))
           [] xr.Type = "text" ->
                IF eq(CondenseWHSP(RemoveNL(xr.Content)), sObsolete)
                THEN SetStatus(regs, reg, OBSOLETE)
                ELSE SetInfo(regs, reg, CondenseWHSP(RemoveNL(xr.Content)))
           [] OTHER -> regs

\* xref.process
process(regs, reg, xr) ==
    CASE xr.Type \in {"registry", "text"} -> processContentUsers(regs, reg, xr)
      [] xr.Type \in {"rfc", "rfc-errata", "draft", "note", "uri", "person"} ->
            processDataUsers(regs, reg, xr)
      [] OTHER -> regs

RECURSIVE processAll(_, _, _)
processAll(regs, reg, xrs) ==
    IF xrs = <<>> THEN regs
    ELSE processAll(process(regs, reg, Head(xrs)), reg, Tail(xrs))

----------------------------------------------------------------------------
(* Leaf records: record.obsolete, processValue, processIdentifier *)

\* record.obsolete: the first note or text cross-reference decides
RECURSIVE obsoleteFrom(_)
obsoleteFrom(xrs) ==
    IF xrs = <<>> THEN FALSE
    ELSE CASE Head(xrs).Type = "note" -> Head(xrs).Data = sOne
           [] Head(xrs).Type = "text" -> lc(Head(xrs).Content) = sObsolete
           [] OTHER -> obsoleteFrom(Tail(xrs))

obsolete(rec) == obsoleteFrom(rec.XRef)

sAndUp == <<" ", "a", "n", "d", " ", "u", "p">>

ErrBadValue == "Bad value; not a range, number form or dotNotation"

\* a processValue that reads the number a value begins with, whatever
\* follows it
processValueLeading(rec) ==
    IF rec.Value # <<>> /\ isDigit(rec.Value[1])
    THEN [dot |-> <<>>, number |-> <<rec.Value[1]>>, rangeTerminus |-> <<>>,
          err |-> NoErr]
    ELSE [dot |-> <<>>, number |-> <<>>, rangeTerminus |-> <<>>, err |-> ErrBadValue]

\* record.processValue: [dot, number, rangeTerminus, err]
processValue(rec) ==
    LET v == rec.Value
        none == [dot |-> <<>>, number |-> <<>>, rangeTerminus |-> <<>>, err |-> NoErr]
    IN  CASE hasSfx(v, sAndUp) ->
                [none EXCEPT !.number = SubSeq(v, 1, Len(v) - 7),
                             !.rangeTerminus = <<"-", "1">>]
          [] ~hasSfx(v, sAndUp) /\ ctns(v, "-") ->
                [none EXCEPT !.number = split(v, "-")[1],
                             !.rangeTerminus = split(v, "-")[2]]
          [] ~hasSfx(v, sAndUp) /\ ~ctns(v, "-") /\ IsNumber(v) ->
                [none EXCEPT !.number = v]
          [] ~hasSfx(v, sAndUp) /\ ~ctns(v, "-") /\ ~IsNumber(v) /\ IsNumericOID(v) ->
                [none EXCEPT !.number = split(v, ".")[Len(split(v, "."))],
                             !.dot = v]
          [] OTHER -> [none EXCEPT !.err = ErrBadValue]

\* missingRecordNames: per registry path, the names of the leaves the
\* registry leaves unnamed
missingRecordNames == (<<1, 3, 6, 1, 2>> :> (<<"9">> :> <<"a", "9">>))

\* patchMissingName: [name, found]
patchMissingName(oid, leaf) ==
    IF IsNumber(leaf) /\ oid \in DOMAIN missingRecordNames
                      /\ leaf \in DOMAIN missingRecordNames[oid]
    THEN [name |-> missingRecordNames[oid][leaf], found |-> TRUE]
    ELSE [name |-> <<>>, found |-> FALSE]

\* the name processIdentifier starts from: the record's own, else the one
\* the missing-name table gave, else the description
rawIdentifier(rec, patched) ==
    IF rec.Name # <<>> THEN rec.Name
    ELSE IF patched.found THEN patched.name
    ELSE IF Len(rec.Description) > 0 THEN rec.Description
    ELSE patched.name

\* the legalized name when it is an identifier, else the legalized
\* description when that is one, else none
identifierOrAlt(identifier, alt) ==
    IF IsIdentifier(identifier) THEN identifier
    ELSE IF IsIdentifier(alt) THEN alt ELSE <<>>

\* record.processIdentifier
processIdentifier(rec, dot) ==
    IF ~IsNumber(rec.Name)
    THEN identifierOrAlt(
             legalizeIdentifier(rawIdentifier(rec, patchMissingName(dot, rec.Value))),
             legalizeIdentifier(rec.Description))
    ELSE <<>>

\* the number form a string spells, or -1 when it spells none
NumberForm(number) == IF IsNumber(number) THEN leadingDigits(number, 0) ELSE -1

----------------------------------------------------------------------------
(* The nested registry: gathering of registrants *)

\* A walk carries ctx = [d, people]: the tree and smiRegistry.people, which
\* maps a person ID or an expert's name to the reference of its registrant.

sMailto == "mailto:"

sPct25 == "%25"

sIANA == << "IANA" >>

\* the registrant gatherRegistrants makes of a <person>
personRegistrant(person) ==
    LET r0 == [NewRegistrant(person.ID, "person") EXCEPT
                  !.cn = person.Name, !.desc = person.Name]
        r1 == IF Len(person.URI) > 0
              THEN IF Head(person.URI) = sMailto
                   THEN [r0 EXCEPT !.email =
                            rplc(rplc(Tail(person.URI), "&", <<"@">>), sPct25, <<"%">>)]
                   ELSE [r0 EXCEPT !.uri = person.URI]
              ELSE r0
    IN  IF Len(person.Name) > 0
        THEN IF person.Name = sIANA
             THEN [r1 EXCEPT !.o = person.Name]
             ELSE [r1 EXCEPT !.cn = person.Name]
        ELSE r1

\* the body of `for _, person := range r.People`
gatherPerson(ctx, person) ==
    IF person.ID \in DOMAIN ctx.people THEN ctx
    ELSE [d      |-> Push(ctx.d, personRegistrant(person)),
          people |-> (person.ID :> (Len(ctx.d.aths) + 1)) @@ ctx.people]

RECURSIVE gatherPeople(_, _)
gatherPeople(ctx, people) ==
    IF people = <<>> THEN ctx
    ELSE gatherPeople(gatherPerson(ctx, Head(people)), Tail(people))

\* strings.Index(s, " ("), from 1; 0 when absent
idxParen(s) ==
    LET at == {i \in 1..(Len(s) - 1) : s[i] = " " /\ s[i + 1] = "("}
    IN  IF at = {} THEN 0 ELSE Min(at)

RECURSIVE trimRParen(_)
trimRParen(s) ==
    IF s # <<>> /\ s[Len(s)] = ")" THEN trimRParen(SubSeq(s, 1, Len(s) - 1)) ELSE s

\* an expert not met before, made a registrant: acc is [ctx, experts], the
\* walk and r.experts
newExpert(acc, orig, cn, desc, dn) ==
    [ctx |-> [d |-> Push(acc.ctx.d,
                         [NewRegistrant(orig, "expert") EXCEPT !.cn = cn, !.o = desc]),
              people |-> (orig :> dn) @@ acc.ctx.people],
     experts |-> Append(acc.experts, dn)]

\* a piece of the expert text split at " (": sl is the piece condensed, idx
\* where " (" stands in it, 0 when nowhere
expertSplit(acc, orig, sl, idx) ==
    IF idx # 0
    THEN IF SubSeq(sl, 1, idx - 1) # <<>> /\ orig \notin DOMAIN acc.ctx.people
         THEN newExpert(acc, orig, SubSeq(sl, 1, idx - 1),
                        <<"IANA, ">> \o trimRParen(SubSeq(sl, idx + 2, Len(sl))),
                        Len(acc.ctx.d.aths) + 1)
         ELSE acc
    ELSE IF sl # <<>> /\ orig \notin DOMAIN acc.ctx.people
         THEN newExpert(acc, orig, sl, sIANA, Len(acc.ctx.d.aths) + 1)
         ELSE acc

expertCondensed(acc, orig, sl) == expertSplit(acc, orig, sl, idxParen(sl))

\* the body of `for _, sl := range sp` in gatherExperts
gatherExpert(acc, piece) ==
    expertCondensed(acc, trimS(piece), trimS(CondenseWHSP(piece)))

RECURSIVE gatherExpertPieces(_, _)
gatherExpertPieces(acc, pieces) ==
    IF pieces = <<>> THEN acc
    ELSE gatherExpertPieces(gatherExpert(acc, Head(pieces)), Tail(pieces))

RECURSIVE gatherExperts(_, _)
RECURSIVE gatherExpertsAll(_, _)

\* own is what the experts of r itself gave, subs what those of its
\* sub-registries gave after them
expertsGathered(r, own, subs) ==
    [ctx |-> subs.ctx,
     r   |-> [r EXCEPT !.experts = own.experts, !.Registries = subs.rs]]

expertsOwn(r, own) == expertsGathered(r, own, gatherExpertsAll(own.ctx, r.Registries))

\* registry.gatherExperts: [ctx, r], r with its experts and those of its
\* sub-registries filled in
gatherExperts(ctx, r) ==
    expertsOwn(r, gatherExpertPieces([ctx |-> ctx, experts |-> r.experts],
                                     split(r.Expert, ",")))

expertsRest(h, t) == [ctx |-> t.ctx, rs |-> <<h.r>> \o t.rs]

expertsHead(h, rs) == expertsRest(h, gatherExpertsAll(h.ctx, rs))

\* gatherExperts on each registry of a list, in order: [ctx, rs]
gatherExpertsAll(ctx, rs) ==
    IF rs = <<>> THEN [ctx |-> ctx, rs |-> <<>>]
    ELSE expertsHead(gatherExperts(ctx, Head(rs)), Tail(rs))

\* smiRegistry.gatherRegistrants: [ctx, rs]
gatherRegistrants(ctx, smi) ==
    gatherExpertsAll(gatherPeople(ctx, smi.People), smi.Registries)

----------------------------------------------------------------------------
(* The nested registry: records.unmarshal *)

\* the linkage of a person cross-reference of a record to its registrant
linkPerson(d, people, child, xr) ==
    IF xr.Type = "person" /\ xr.Data \in DOMAIN people /\ child # NoReg
    THEN LET athy == d.aths[people[xr.Data]]
         IN  IF d.profile = "dedicated"
             THEN [d EXCEPT !.regs = SetCurrentAuthorities(@, child, people[xr.Data])]
             ELSE IF d.profile = "combined"
                  THEN [d EXCEPT !.regs[child].cEmail = athy.email,
                                 !.regs[child].cCN = athy.cn,
                                 !.regs[child].cO = athy.o,
                                 !.regs[child].desc = athy.desc]
                  ELSE d
    ELSE d

\* `for _, xr := range rec.XRef` on a child just made
RECURSIVE recXRefs(_, _, _, _)
recXRefs(d, people, child, xrs) ==
    IF xrs = <<>> THEN d
    ELSE recXRefs(linkPerson([d EXCEPT !.regs = process(@, child, Head(xrs))],
                             people, child, Head(xrs)),
                  people, child, Tail(xrs))

\* what records.unmarshal does with a child it has just made
enrichChild(d, people, child, rec, identifier, rangeTerm) ==
    LET regs1 == IF rangeTerm # <<>> THEN SetRange(d.regs, child, rangeTerm) ELSE d.regs
        regs2 == IF ctns(Identifier(regs1, child), ".")
                 THEN SetIdentifier(regs1, child, identifier) ELSE regs1
    IN  recXRefs([d EXCEPT !.regs = regs2], people, child, rec.XRef)

\* `if len(identifier) == 0 { identifier = number }`
identifierOrNumber(identifier, number) ==
    IF Len(identifier) = 0 THEN number ELSE identifier

\* a child made by NewChild (nc is [regs, reg]) and then enriched
recNewChild(d, people, nc, rec, identifier, rangeTerm) ==
    enrichChild([d EXCEPT !.regs = nc.regs], people, nc.reg, rec, identifier,
                rangeTerm)

\* the loop body for a record the parent has no child for yet
recNamed(d, people, parent, rec, pv, identifier) ==
    recNewChild(d, people,
                NewChild(d.regs, parent, NumberForm(pv.number), identifier),
                rec, identifier, pv.rangeTerminus)

\* the loop body once the value (pv) and the identifier are worked out
recValued(d, people, parent, rec, pv, identifier) ==
    IF pv.err # NoErr \/ obsolete(rec) THEN d
    ELSE IF ChildGet(d.regs, parent, NumberForm(pv.number)) = NoReg
         THEN recNamed(d, people, parent, rec, pv,
                       identifierOrNumber(identifier, pv.number))
         ELSE d

\* the body of the loop of records.unmarshal
recOne(d, people, parent, rec) ==
    recValued(d, people, parent, rec, processValue(rec),
              processIdentifier(rec, DotNotation(d.regs, parent)))

RECURSIVE recAll(_, _, _, _)
recAll(d, people, parent, rs) ==
    IF rs = <<>> THEN d
    ELSE recAll(recOne(d, people, parent, Head(rs)), people, parent, Tail(rs))

\* ks with the reference c put before the first whose number form is greater
RECURSIVE insertByNumber(_, _, _)
insertByNumber(regs, ks, c) ==
    IF ks = <<>> THEN <<c>>
    ELSE IF regs[c].n < regs[Head(ks)].n THEN <<c>> \o ks
         ELSE <<Head(ks)>> \o insertByNumber(regs, Tail(ks), c)

RECURSIVE sortedByNumber(_, _)
sortedByNumber(regs, ks) ==
    IF ks = <<>> THEN <<>>
    ELSE insertByNumber(regs, sortedByNumber(regs, SubSeq(ks, 1, Len(ks) - 1)),
                        ks[Len(ks)])

\* Children().SortByNumberForm()
SortByNumberForm(regs, p) ==
    IF p = NoReg THEN regs
    ELSE [regs EXCEPT ![p].kids = sortedByNumber(regs, @)]

\* records.unmarshal
recordsUnmarshal(d, people, parent, rs) ==
    LET d1 == recAll(d, people, parent, rs)
    IN  [d1 EXCEPT !.regs = SortByNumberForm(@, parent)]

----------------------------------------------------------------------------
(* The nested registry: registry.unmarshalRecords and the walk *)

\* strings.TrimRight(s, cutset) and strings.TrimLeft(s, cutset)
RECURSIVE trimR(_, _)
trimR(s, cutset) ==
    IF s # <<>> /\ s[Len(s)] \in cutset
    THEN trimR(SubSeq(s, 1, Len(s) - 1), cutset)
    ELSE s

RECURSIVE trimL(_, _)
trimL(s, cutset) ==
    IF s # <<>> /\ Head(s) \in cutset THEN trimL(Tail(s), cutset) ELSE s

\* `desc = trimS(rplc(desc, ch, ""))` for each of [ ] ( )
stripBrackets(descr) ==
    trimS(rplc(trimS(rplc(trimS(rplc(trimS(rplc(descr, "[", <<>>)),
                                     "]", <<>>)), "(", <<>>)), ")", <<>>))

\* the loop of descriptionAndOID over the words sp, from acc = [desc, dot]
RECURSIVE descriptionWords(_, _)
descriptionWords(sp, acc) ==
    IF sp = <<>> THEN acc
    ELSE LET w == trimR(Head(sp), {"."})
         IN  descriptionWords(Tail(sp),
                 IF IsNumericOID(w) THEN [acc EXCEPT !.dot = w]
                 ELSE [acc EXCEPT !.desc = w])

\* descriptionAndOID: [desc, dot]
descriptionAndOID(descr) ==
    IF descr # <<>>
    THEN LET r == descriptionWords(split(stripBrackets(descr), " "),
                                   [desc |-> stripBrackets(descr), dot |-> <<>>])
         IN  [r EXCEPT !.dot = trimR(@, {"."})]
    ELSE [desc |-> <<>>, dot |-> <<>>]

\* the number forms of a dotted path
DotArcs(oid) == [i \in 1..Len(split(oid, ".")) |-> NumberForm(split(oid, ".")[i])]

sOrg == <<"o", "r", "g">>

\* a buildASN1Not that takes the label path as it comes
buildASN1NotAsIs(sp, path) ==
    IF Len(sp) = Len(path)
    THEN [i \in 1..Len(path) |->
             IF ~IsNumber(path[i]) THEN NaNF(path[i], sp[i]) ELSE NaNF(NoId, sp[i])]
    ELSE <<>>

\* buildASN1Not: the notation as its NameAndNumberForms, none when the
\* lengths differ
buildASN1Not(sp, path) ==
    IF Len(sp) = Len(path)
    THEN LET path2 == IF Len(path) > 1 /\ path[2] = sOrg
                      THEN [path EXCEPT ![2] = id_identified_organization]
                      ELSE path
         IN  [i \in 1..Len(path2) |->
                 IF ~IsNumber(path2[i]) THEN NaNF(path2[i], sp[i])
                 ELSE NaNF(NoId, sp[i])]
    ELSE <<>>

SetASN1Notation(regs, r, v) ==
    IF r = NoReg THEN regs ELSE [regs EXCEPT ![r].notation = v]

RECURSIVE linkExperts(_, _, _)
linkExperts(regs, parent, experts) ==
    IF experts = <<>> THEN regs
    ELSE linkExperts(SetCurrentAuthorities(regs, parent, Head(experts)),
                     parent, Tail(experts))

\* a cross-reference of a note as it is dispatched
noteXRef(n, xr) ==
    IF xr.Type = "uri" /\ n.Title # <<>> THEN [xr EXCEPT !.Content = n.Title]
    ELSE IF xr.Type = "registry"
         THEN [xr EXCEPT !.Type = "uri", !.Data = IANAAssignmentsPrefix \o @]
         ELSE xr

RECURSIVE noteXRefs(_, _, _, _)
noteXRefs(regs, parent, n, xrs) ==
    IF xrs = <<>> THEN regs
    ELSE noteXRefs(process(regs, parent, noteXRef(n, Head(xrs))), parent, n, Tail(xrs))

ErrNote == "note: XML syntax error"

\* the body of `for _, n := range r.Note`, for a note that decodes
noteOne(regs, parent, n) ==
    LET clean == trimR(trimR(trimL(trimS(n.Text), {"\\", "n"}), {"\\", "n"}),
                       {"\\", "n"})
        regs1 == IF Len(n.FullText) > 0 /\ clean # <<>> /\ Head(clean) # "<"
                 THEN SetInfo(regs, parent, CondenseWHSP(RemoveNL(n.FullText)))
                 ELSE regs
    IN  noteXRefs(regs1, parent, n, n.XRef)

\* the notes in order: [regs, err]; a note that does not decode ends the walk
RECURSIVE noteAll(_, _, _)
noteAll(regs, parent, ns) ==
    IF ns = <<>> THEN [regs |-> regs, err |-> NoErr]
    ELSE IF Head(ns).bad THEN [regs |-> regs, err |-> ErrNote]
         ELSE noteAll(noteOne(regs, parent, Head(ns)), parent, Tail(ns))

ErrAllocation == "Allocation error"

\* `srcinfo`: the description, or the title when there is no description
srcInfo(r) == IF r.Title # <<>> /\ r.Description = <<>> THEN r.Title ELSE r.Description

\* names set on the registration of a registry whether it has one or not
setNamesAnyway(regs, parent, dp, sp) ==
    SetASN1Notation(
        IF Len(dp) = Len(sp) THEN SetIdentifier(regs, parent, dp[Len(dp)]) ELSE regs,
        parent,
        buildASN1Not(sp, IF Len(dp) = Len(sp) THEN dp ELSE <<>>))

\* identifier and notation set on the registration of a registry: dp is the
\* description split at its dots, sp the path split at its
setNames(regs, parent, dp, sp) ==
    SetASN1Notation(
        IF Identifier(regs, parent) = <<>> /\ Len(dp) = Len(sp)
        THEN SetIdentifier(regs, parent, dp[Len(dp)]) ELSE regs,
        parent,
        buildASN1Not(sp, IF Len(dp) = Len(sp) THEN dp ELSE <<>>))

\* unmarshalRecords from the notes on: nt is what the notes left, [regs, err]
unmarshalNoted(d1, people, r, parent, nt, dp, sp) ==
    IF nt.err # NoErr THEN [d |-> [d1 EXCEPT !.regs = nt.regs], err |-> nt.err]
    ELSE IF DotNotation(nt.regs, parent) # sp
         THEN [d |-> [d1 EXCEPT !.regs = nt.regs], err |-> ErrAllocation]
    ELSE [d   |-> recordsUnmarshal([d1 EXCEPT !.regs = setNames(nt.regs, parent, dp, sp)],
                                   people, parent, r.Records),
          err |-> NoErr]

\* unmarshalRecords from the allocation on: al is what Allocate returned
unmarshalAllocated(d1, people, r, al, dp, sp) ==
    unmarshalNoted(d1, people, r, al.reg,
                   noteAll(processAll(linkExperts(al.regs, al.reg, r.experts),
                                      al.reg, r.XRef),
                           al.reg, r.Note),
                   dp, sp)

\* unmarshalRecords of a registry that names a path: d1 has the iso root
unmarshalAt(d1, people, r, dao, sp) ==
    unmarshalAllocated(d1, people, r, Allocate(d1.regs, d1.tree[2], Numeric(sp)),
                       split(dao.desc, "."), sp)

\* unmarshalRecords once description and path are told apart
unmarshalDescribed(d, people, r, dao) ==
    IF dao.dot = <<>> THEN [d |-> d, err |-> NoErr]
    ELSE unmarshalAt(ISO(d), people, r, dao, DotArcs(dao.dot))

\* registry.unmarshalRecords: [d, err]
unmarshalRecords(d, people, r) ==
    unmarshalDescribed(d, people, r, descriptionAndOID(srcInfo(r)))

RECURSIVE registryUnmarshal(_, _, _)
RECURSIVE registriesUnmarshal(_, _, _)

\* a walk that goes on with the registries rs unless res, [d, err], holds
\* an error
unlessError(res, people, rs) ==
    IF res.err # NoErr THEN res ELSE registriesUnmarshal(res.d, people, rs)

\* registry.unmarshal: [d, err]
registryUnmarshal(d, people, r) ==
    unlessError(unmarshalRecords(d, people, r), people, r.Registries)

\* `for _, subregi := range r.Registries`, ended by the first error
registriesUnmarshal(d, people, rs) ==
    IF rs = <<>> THEN [d |-> d, err |-> NoErr]
    ELSE unlessError(registryUnmarshal(d, people, Head(rs)), people, Tail(rs))

\* missingRegistryURNs: the description of a registry that carries none,
\* by registry ID
missingRegistryURNs ==
    (<<"i", "d", "5">> :> <<"i", "s", "o", ".", "o", "r", "g", " ", "1", ".", "3">>)

\* the description a top-level registry is walked with
patchedDescription(regi) ==
    IF regi.ID \in DOMAIN missingRegistryURNs
    THEN IF missingRegistryURNs[regi.ID] \in DOMAIN missingRegistryURNs
         THEN missingRegistryURNs[missingRegistryURNs[regi.ID]]
         ELSE <<>>
    ELSE regi.Description

\* `for _, regi := range r.Registries` of smiRegistry.unmarshal
RECURSIVE topRegistries(_, _, _)

topUnlessError(res, people, rs) ==
    IF res.err # NoErr THEN res ELSE topRegistries(res.d, people, rs)

topRegistries(d, people, rs) ==
    IF rs = <<>> THEN [d |-> d, err |-> NoErr]
    ELSE topUnlessError(
             registryUnmarshal(d, people,
                 [Head(rs) EXCEPT !.Description = patchedDescription(Head(rs))]),
             people, Tail(rs))

NoPeople == [k \in {} |-> NoReg]

\* the walk of the registries after gatherRegistrants, g being what it
\* returned
smiGathered(g) == topRegistries(g.ctx.d, g.ctx.people, g.rs)

\* smiRegistry.unmarshal: [d, err]
smiUnmarshal(d, smi) ==
    smiGathered(gatherRegistrants([d |-> d, people |-> NoPeople], smi))

ErrOpen == "open: no such file or directory"

ErrXML == "XML syntax error"

\* LoadSMIRegistry: [d, err].  A file is [readable, wellformed, smi].
LoadSMIRegistry(d, file) ==
    IF ~file.readable THEN [d |-> d, err |-> ErrOpen]
    ELSE IF ~file.wellformed THEN [d |-> d, err |-> ErrXML]
    ELSE smiUnmarshal(d, file.smi)

----------------------------------------------------------------------------
(* The flat-registry scanner: LoadPENRegistry *)

skipLines == 16

\* the Decimal of a record no line has been read for
NoDecimal == -1

\* `var ent pen`: Go's zero value
ZeroPen == [Decimal |-> 0, Name |-> <<>>, Contact |-> <<>>, Email |-> <<>>]

\* pen{Decimal: -1}
FreshPen == [Decimal |-> NoDecimal, Name |-> <<>>, Contact |-> <<>>, Email |-> <<>>]

\* the record the scan loop starts with
InitialPen == ZeroPen

\* One iteration of `for scanner.Scan()`: st is [ent, Numbers], the result too.
ScanLine(st, line) ==
    LET e == st.ent
        emit(x) == IF x.Decimal # NoDecimal
                   THEN [ent |-> FreshPen, Numbers |-> Append(st.Numbers, x)]
                   ELSE [ent |-> x, Numbers |-> st.Numbers]
    IN  IF trimS(line) # <<>>
        THEN CASE e.Decimal = NoDecimal ->
                    [st EXCEPT !.ent.Decimal = Sscanf(line, e.Decimal)]
               [] e.Decimal # NoDecimal /\ e.Name = <<>> ->
                    [st EXCEPT !.ent.Name = trimS(line)]
               [] e.Decimal # NoDecimal /\ e.Name # <<>> /\ e.Contact = <<>> ->
                    [st EXCEPT !.ent.Contact = trimS(line)]
               [] e.Decimal # NoDecimal /\ e.Name # <<>> /\ e.Contact # <<>>
                    /\ e.Email = <<>> ->
                    emit([e EXCEPT !.Email = trimS(line)])
               [] OTHER -> emit(e)
        ELSE emit(e)

\* the lines a registry file may hold after its header
Lines == { <<>>, <<"1">>, <<"2">>, <<" ", "a">> }

IsBlank(line) == trimS(line) = <<>>

\* the variables of the legalizer, at rest
LegalIdle == lpc = "off" /\ lin = <<>> /\ lout = <<>>

\* a nil ImportList, and the keys an ImportList may hold
ImportKeys == {"smifile", "ldapfile", "penfile"}

NoFile == [readable |-> FALSE]

NilList == [nil |-> TRUE, keys |-> {}, smifile |-> NoFile, ldapfile |-> NoFile,
            penfile |-> NoFile]

\* the variables of Import, at rest
ImportIdle ==
    /\ imppc = "off"
    /\ imp = NilList
    /\ opened = <<>>
    /\ start = NewDIT("dedicated")
    /\ before = NewDIT("dedicated")
    /\ smiPeople = NoPeople
    /\ pending = <<>>

\* no call on the tree store yet
NoCall == [op |-> "none", k |-> 0]

\* PrimeISO on a fresh tree
PrimedISO(profile) == Prime(NewDIT(profile), 1, isoTree)

ScanInit ==
    /\ scanpc = "header"
    /\ skipped = 0
    /\ ent = InitialPen
    /\ Numbers = <<>>
    /\ fed = <<>>
    /\ err = NoErr
    /\ \E profile \in Profiles : dit \in {NewDIT(profile), PrimedISO(profile)}
    /\ LegalIdle
    /\ ImportIdle
    /\ last = NoCall

\* `for i := 0; i < skipLines; i++ { scanner.Scan() }`: one header line
SkipHeaderLine ==
    /\ scanpc = "header"
    /\ skipped < skipLines
    /\ skipped' = skipped + 1
    /\ UNCHANGED <<scanpc, ent, Numbers, fed, dit, err, legalvars, impvars, last>>

HeaderDone ==
    /\ scanpc = "header"
    /\ skipped = skipLines
    /\ scanpc' = "scan"
    /\ UNCHANGED <<skipped, ent, Numbers, fed, dit, err, legalvars, impvars, last>>

ScanStep ==
    /\ scanpc = "scan"
    /\ Len(fed) < MaxLines
    /\ \E line \in Lines :
         LET st == ScanLine([ent |-> ent, Numbers |-> Numbers], line)
         IN  /\ ent' = st.ent
             /\ Numbers' = st.Numbers
             /\ fed' = Append(fed, line)
    /\ UNCHANGED <<scanpc, skipped, dit, err, legalvars, impvars, last>>

\* scanner.Scan() reports the end of the file: `err = ents.unmarshal()`
ScanEOF ==
    /\ scanpc = "scan"
    /\ scanpc' = "done"
    /\ dit' = penUnmarshal(dit, Numbers).d
    /\ err' = penUnmarshal(dit, Numbers).err
    /\ UNCHANGED <<skipped, ent, Numbers, fed, legalvars, impvars, last>>

ScanNext == SkipHeaderLine \/ HeaderDone \/ ScanStep \/ ScanEOF

SpecScan == ScanInit /\ [][ScanNext]_vars

----------------------------------------------------------------------------
(* legalizeIdentifier over every name of the bound *)

\* the variables of the scanner, at rest
ScanIdle ==
    /\ scanpc = "off"
    /\ skipped = 0
    /\ ent = InitialPen
    /\ Numbers = <<>>
    /\ fed = <<>>

NameSymbols == {"a", "B", "1", "-", "_", ".", " ", sRetainedByTitle}

Names == UNION { [1..k -> NameSymbols] : k \in 0..MaxNameLen }

LegalInit ==
    /\ lpc = "call"
    /\ lin \in Names
    /\ lout = <<>>
    /\ dit = NewDIT("dedicated")
    /\ err = NoErr
    /\ ScanIdle
    /\ ImportIdle
    /\ last = NoCall

Legalize ==
    /\ lpc = "call"
    /\ lpc' = "ret"
    /\ lout' = legalizeIdentifier(lin)
    /\ UNCHANGED <<lin, dit, err, scanvars, impvars, last>>

LegalNext == Legalize

SpecLegal == LegalInit /\ [][LegalNext]_vars

----------------------------------------------------------------------------
(* The files an import may be given *)

XRef(type, data, content) == [Type |-> type, Data |-> data, Content |-> content]

Record(value, name, description, xrefs) ==
    [Value |-> value, Name |-> name, Description |-> description, XRef |-> xrefs]

Person(id, name, uri) == [ID |-> id, Name |-> name, URI |-> uri]

Note(text, fulltext, title, xrefs, bad) ==
    [Text |-> text, FullText |-> fulltext, Title |-> title, XRef |-> xrefs, bad |-> bad]

\* a registry as decoded: no expert gathered yet
Registry(id, description, title, expert, notes, xrefs, records, registries) ==
    [ID |-> id, Description |-> description, Title |-> title, Expert |-> expert,
     Note |-> notes, XRef |-> xrefs, Records |-> records, Registries |-> registries,
     experts |-> <<>>]

SMI(people, registries) == [People |-> people, Registries |-> registries]

\* a registry file that opens and decodes
SmiFile(smi) == [readable |-> TRUE, wellformed |-> TRUE, smi |-> smi]

NoSMI == SMI(<<>>, <<>>)

\* a file that cannot be opened, and one that is no XML
UnreadableSmi == [readable |-> FALSE, wellformed |-> FALSE, smi |-> NoSMI]

MalformedSmi == [readable |-> TRUE, wellformed |-> FALSE, smi |-> NoSMI]

sP1 == <<"p", "1">>

sP2 == <<"p", "2">>

sEnterprise == <<"i", "s", "o", ".", "o", "r", "g", ".", "d", "o", "d", ".", "i", "n", "t", "e", "r", "n", "e", "t", ".", "p", "r", "i", "v", "a", "t", "e", ".", "e", "n", "t", "e", "r", "p", "r", "i", "s", "e", " ", "(", "1", ".", "3", ".", "6", ".", "1", ".", "4", ".", "1", ")">>

sEnterpriseOne == <<"1", ".", "3", ".", "6", ".", "1", ".", "4", ".", "1", ".", "1">>

\* leaf records: a named one, one flagged obsolete by its first
\* cross-reference, one whose note 1 comes second, one with a person, one
\* with no value to parse, one repeating the arc of the first, ranges, a
\* full path, and the arc of the curated supplement
recPlain == Record(<<"1">>, <<"a", "-", "b">>, <<>>, <<>>)

recObsolete == Record(<<"2">>, <<"b">>, <<>>, << XRef("note", sOne, <<>>) >>)

recLateNote ==
    Record(<<"3">>, <<>>, <<"c">>,
           << XRef("text", <<>>, <<"x">>), XRef("note", sOne, <<>>),
              XRef("uri", <<"u">>, <<"l">>) >>)

recPerson == Record(<<"4">>, <<"I", ".", "d">>, <<>>, << XRef("person", sP1, <<>>) >>)

recBad == Record(<<"x">>, <<"n">>, <<>>, <<>>)

recAgain == Record(<<"1">>, <<"c">>, <<>>, << XRef("rfc", <<"r", "f", "c", "1">>, <<>>) >>)

recRange == Record(<<"5", "-", "7">>, <<>>, <<>>, <<>>)

recAndUp == Record(<<"8">> \o sAndUp, <<"u", "_", "p">>, <<>>, <<>>)

recPath == Record(<<"1", ".", "3", ".", "6", ".", "1", ".", "4", ".", "1", ".", "9">>, <<>>, <<>>, <<>>)

recJesse == Record(<<"5", "6", "5", "2", "1">>, <<>>, <<>>, <<>>)

\* the first registry file: two people, the enterprise registry with its
\* records and a sub-registry
smiA ==
    SMI(<< Person(sP1, sIANA, <<sMailto, "i", "&", "a">>),
           Person(sP2, <<"B", "o", "b">>, <<"h">>),
           Person(sP1, <<"P">>, <<>>) >>,
        << Registry(<<"i", "d", "1">>, sEnterprise, <<>>,
                    <<"B", "o", "b", " ", "(", "x", ")", ",", " ", "A", "l">>,
                    << Note(<<"t">>, <<"t", "\n", "t">>, <<"T">>,
                            << XRef("registry", <<"r">>, <<>>) >>, FALSE) >>,
                    << XRef("rfc-errata", <<"7">>, <<>>), XRef("person", sP2, <<>>) >>,
                    << recPlain, recObsolete, recLateNote, recPerson, recBad, recAgain >>,
                    << Registry(<<"i", "d", "2">>, <<>>, sEnterpriseOne,
                                <<"A", "l">>, <<>>, <<>>,
                                << recAndUp, recRange, recPath >>, <<>>) >>) >>)

\* the second: the same person ID again, a registry described by its title,
\* one with no path at all and one the missing-description table names
smiB ==
    SMI(<< Person(sP1, sIANA, <<sMailto, "i", "&", "a">>) >>,
        << Registry(<<"i", "d", "3">>, <<>>, sEnterprise, <<"A", "l">>, <<>>,
                    << XRef("text", <<>>, <<"O", "b", "s", "o", "l", "e", "t", "e">>) >>,
                    << recJesse, recPerson >>, <<>>),
           Registry(<<"i", "d", "4">>, <<"n", "o", "n", "e">>, <<>>, <<>>, <<>>, <<>>,
                    << recPlain >>, <<>>),
           Registry(<<"i", "d", "5">>, sEnterpriseOne, <<>>, <<>>, <<>>, <<>>,
                    << recPlain >>, <<>>) >>)

\* the third: a registry of another root between two of this one
smiC ==
    SMI(<<>>,
        << Registry(<<"i", "d", "6">>, sEnterpriseOne, <<>>, <<>>, <<>>, <<>>,
                    << recPlain >>, <<>>),
           Registry(<<"i", "d", "7">>, <<"d", "s", " ", "2", ".", "5">>, <<>>, <<>>,
                    <<>>, <<>>, << recPlain >>, <<>>),
           Registry(<<"i", "d", "8">>, sEnterprise, <<>>, <<>>, <<>>, <<>>,
                    << recPlain >>, <<>>) >>)

\* the fourth: a note that does not decode
smiD ==
    SMI(<<>>,
        << Registry(<<"i", "d", "9">>, sEnterprise, <<>>, <<>>,
                    << Note(<<"<">>, <<>>, <<>>, <<>>, TRUE) >>, <<>>,
                    << recPlain >>, <<>>) >>)

\* a value that starts like a number and is none, and a range whose first
\* arc an earlier record of smiE names
recBadTail == Record(<<"7", "x">>, <<"n">>, <<>>, <<>>)

recThrough == Record(<<"3", "-", "9">>, <<>>, <<>>, <<>>)

\* a range that begins with no number
recBadRange == Record(<<"x", "-", "5">>, <<>>, <<>>, <<>>)

\* the fifth: a registry with a bare address and a person among its
\* cross-references and in its note, whose sub-registry names an arc lower
\* than those of its records; then a registry of another root whose note
\* does not decode
smiE ==
    SMI(<< Person(sP1, <<"P">>, <<"h">>) >>,
        << Registry(<<"i", "d", "1", "0">>, sEnterprise, <<>>, <<>>,
                    << Note(<<"t">>, <<"t">>, <<>>,
                            << XRef("person", sP1, <<>>) >>, FALSE) >>,
                    << XRef("uri", <<"u">>, <<>>), XRef("person", sP1, <<>>) >>,
                    << recLateNote, recBadTail, recBadRange, recThrough, recRange >>,
                    << Registry(<<"i", "d", "1", "1">>, <<>>, sEnterpriseOne,
                                <<>>, <<>>, <<>>, << recPerson >>, <<>>) >>),
           Registry(<<"i", "d", "1", "2">>, <<"d", "s", " ", "2", ".", "5">>, <<>>,
                    <<>>, << Note(<<"<">>, <<>>, <<>>, <<>>, TRUE) >>, <<>>,
                    << recPlain >>, <<>>) >>)

SmiFiles ==
    { UnreadableSmi, MalformedSmi, SmiFile(smiA), SmiFile(smiB), SmiFile(smiC),
      SmiFile(smiD), SmiFile(smiE) }

\* a flat registry file: whether it opens, and its lines
PenFile(lines) == [readable |-> TRUE, lines |-> lines]

UnreadablePen == [readable |-> FALSE, lines |-> <<>>]

\* the header of the flat registry
Header == [i \in 1..skipLines |-> <<"#">>]

\* two groups with a blank line between them, after a blank line
penA ==
    PenFile(Header \o
              << <<>>,
                 <<"1">>,
                 <<" ", " ", "F", "o", "o">>,
                 <<" ", " ", " ", " ", "B", "a", "r">>,
                 <<" ", " ", " ", " ", " ", " ", "x", "@", "y">>,
                 <<>>,
                 <<"5", "6", "5", "2", "1">>,
                 <<" ", " ", "A", "C", "M", "E">>,
                 <<" ", " ", " ", " ", "J", "a", "n", "e", " ", "D", "o", "e">>,
                 <<" ", " ", " ", " ", " ", " ", "j", "@", "a">> >>)

\* two groups and no blank line at all
penB ==
    PenFile(Header \o
              << <<"1">>,
                 <<" ", " ", "F", "o", "o">>,
                 <<" ", " ", " ", " ", "B", "a", "r">>,
                 <<" ", " ", " ", " ", " ", " ", "x", "@", "y">>,
                 <<"2">>,
                 <<" ", " ", "B", "a", "z">> >> \o
            << sNone, <<"z">> >>)

\* a file that ends within its header
penC == PenFile(SubSeq(Header, 1, 3))

PenFiles == { UnreadablePen, penA, penB, penC }

----------------------------------------------------------------------------
(* LoadPENRegistry as one call, and RADIT.Import *)

RECURSIVE ScanFrom(_, _)
ScanFrom(st, lines) ==
    IF lines = <<>> THEN st ELSE ScanFrom(ScanLine(st, Head(lines)), Tail(lines))

\* the scan of a whole file: the header skipped, then every line in order
ScanAll(lines) ==
    ScanFrom([ent |-> InitialPen, Numbers |-> <<>>],
             SubSeq(lines, skipLines + 1, Len(lines)))

\* LoadPENRegistry: [d, err]
LoadPENRegistry(d, file) ==
    IF ~file.readable THEN [d |-> d, err |-> ErrOpen]
    ELSE penUnmarshal(d, ScanAll(file.lines).Numbers)

\* the order in which Import looks its keys up
ImportOrder == <<"smifile", "ldapfile", "penfile">>

\* the loader Import calls for a key
Load(d, key, file) ==
    IF key = "penfile" THEN LoadPENRegistry(d, file) ELSE LoadSMIRegistry(d, file)

\* an Import that goes on to the next key whatever the source returned
ImportAfterAnyway(i, e) ==
    IF i = Len(ImportOrder) THEN "done" ELSE ImportOrder[i + 1]

\* where Import goes once the source at place i of the order returned e:
\* out on an error, on to the next key otherwise
ImportAfter(i, e) ==
    IF e # NoErr \/ i = Len(ImportOrder) THEN "done" ELSE ImportOrder[i + 1]

\* an ImportList naming the keys of ks
List(ks, smifile, ldapfile, penfile) ==
    [nil |-> FALSE, keys |-> ks,
     smifile  |-> IF "smifile" \in ks THEN smifile ELSE NoFile,
     ldapfile |-> IF "ldapfile" \in ks THEN ldapfile ELSE NoFile,
     penfile  |-> IF "penfile" \in ks THEN penfile ELSE NoFile]

ImportLists ==
    {NilList} \cup
    { List(ks, s, l, p) : ks \in SUBSET ImportKeys, s \in SmiFiles, l \in SmiFiles,
                          p \in PenFiles }

\* a call on the tree store as `last` records it: the tree before it, and
\* how many calls were made so far
Call(op, n, nodes) ==
    [op |-> op, n |-> n, nodes |-> nodes, d |-> dit, k |-> last.k + 1]

ImportInit ==
    /\ \E profile \in Profiles : dit = NewDIT(profile)
    /\ err = NoErr
    /\ imppc = "idle"
    /\ imp = NilList
    /\ opened = <<>>
    /\ start = dit
    /\ before = dit
    /\ smiPeople = NoPeople
    /\ pending = <<>>
    /\ ScanIdle
    /\ LegalIdle
    /\ last = NoCall

\* RADIT.PrimeISO, before an import or after it
PrimeISO ==
    /\ imppc \in {"idle", "done"}
    /\ last.k < MaxCalls
    /\ dit' = Prime(dit, 1, isoTree)
    /\ last' = Call("Prime", 1, isoTree)
    /\ UNCHANGED <<err, scanvars, legalvars, impvars>>

\* Import is called: a nil list returns at once, with no error
ImportCall ==
    /\ imppc = "idle"
    /\ \E list \in ImportLists :
         /\ imp' = list
         /\ imppc' = IF list.nil THEN "done" ELSE ImportOrder[1]
    /\ err' = NoErr
    /\ opened' = <<>>
    /\ start' = dit
    /\ before' = dit
    /\ UNCHANGED <<dit, smiPeople, pending, scanvars, legalvars, last>>

\* `if file, specified := imp[key]; specified { if err = load(file) ... }`
\* for the key at place i of the order
Loaded(i, res) ==
    /\ dit' = res.d
    /\ err' = res.err
    /\ opened' = Append(opened, ImportOrder[i])
    /\ before' = dit
    /\ imppc' = ImportAfter(i, res.err)

ImportSource(i) ==
    /\ imppc = ImportOrder[i]
    /\ IF ImportOrder[i] \in imp.keys
       THEN Loaded(i, Load(dit, ImportOrder[i], imp[ImportOrder[i]]))
       ELSE /\ imppc' = ImportAfter(i, NoErr)
            /\ UNCHANGED <<dit, err, opened, before>>
    /\ UNCHANGED <<imp, start, smiPeople, pending, scanvars, legalvars, last>>

ImportSMI == ImportSource(1)

ImportLDAP == ImportSource(2)

ImportPEN == ImportSource(3)

ImportNext == PrimeISO \/ ImportCall \/ ImportSMI \/ ImportLDAP \/ ImportPEN

SpecImport == ImportInit /\ [][ImportNext]_vars

----------------------------------------------------------------------------
(* RADIT.Write: the tree handed off, sorted when the caller asks for it *)

RECURSIVE SortByNumberFormAll(_, _)
RECURSIVE SortKids(_, _)

\* the subtrees of the registrations of ks sorted, one after another
SortKids(regs, ks) ==
    IF ks = <<>> THEN regs
    ELSE SortKids(SortByNumberFormAll(regs, Head(ks)), Tail(ks))

\* the children of p are in order: the subtrees beneath them follow
SortedDown(regs, p) == SortKids(regs, regs[p].kids)

\* Registration.SortByNumberForm(true): the children of p, and recursively
\* the whole subtree of p, put in ascending order of number form
SortByNumberFormAll(regs, p) ==
    IF p = NoReg THEN regs ELSE SortedDown(SortByNumberForm(regs, p), p)

\* the three roots as Write reaches them, each made on first use
WriteRoots(d) == JointISOITUT(ITUT(ISO(d)))

\* the three roots of d sorted
WriteSorted(d) ==
    [d EXCEPT !.regs = SortByNumberFormAll(
                           SortByNumberFormAll(
                               SortByNumberFormAll(@, d.tree[1]), d.tree[2]), d.tree[3])]

\* the tree after Write(sortByNumberForm, spatialXY, subentries); the axes
\* and the serialized buffer are the tree store's and change nothing here
WriteTree(d, sortByNumberForm) ==
    IF sortByNumberForm THEN WriteSorted(WriteRoots(d)) ELSE WriteRoots(d)

\* RADIT.Write, before an import or after it
Write ==
    /\ imppc \in {"idle", "done"}
    /\ last.k < MaxCalls
    /\ \E sortByNumberForm \in BOOLEAN :
         /\ dit' = WriteTree(dit, sortByNumberForm)
         /\ last' = Call(IF sortByNumberForm THEN "WriteSorted" ELSE "Write", 0, <<>>)
    /\ UNCHANGED <<err, scanvars, legalvars, impvars>>

WriteNext == ImportNext \/ Write

SpecWrite == ImportInit /\ [][WriteNext]_vars


----------------------------------------------------------------------------
(* LoadSMIRegistry step by step: the people and experts gathered, then one *)
(* registry.unmarshalRecords after another, in the order of the walk       *)

\* the registries of a decoded file as smiRegistry.unmarshal walks them,
\* each with the description it is walked with
RECURSIVE Patched(_)
Patched(rs) ==
    IF rs = <<>> THEN <<>>
    ELSE << [Head(rs) EXCEPT !.Description = patchedDescription(Head(rs))] >>
         \o Patched(Tail(rs))

\* a registry.unmarshalRecords as `last` records it: the registry, and the
\* tree before it
RegCall(r) ==
    [op |-> "unmarshalRecords", n |-> 1, nodes |-> <<r>>, d |-> dit, k |-> last.k]

\* what gatherRegistrants left (g): the walk begins, or ends at once when
\* the file holds no registry
Gathered(g) ==
    /\ dit' = g.ctx.d
    /\ smiPeople' = g.ctx.people
    /\ pending' = Patched(g.rs)
    /\ err' = NoErr
    /\ imppc' = IF g.rs = <<>> THEN "done" ELSE "walk"

\* LoadSMIRegistry up to the walk: the file read and decoded, the
\* registrants gathered
SmiOpen ==
    /\ imppc \in {"idle", "done"}
    /\ Len(opened) < MaxLoads
    /\ \E file \in SmiFiles :
         /\ imp' = List({"smifile"}, file, NoFile, NoFile)
         /\ IF file.readable /\ file.wellformed
            THEN Gathered(gatherRegistrants([d |-> dit, people |-> NoPeople], file.smi))
            ELSE /\ err' = LoadSMIRegistry(dit, file).err
                 /\ imppc' = "done"
                 /\ smiPeople' = NoPeople
                 /\ pending' = <<>>
                 /\ UNCHANGED dit
    /\ opened' = Append(opened, "smifile")
    /\ start' = dit
    /\ before' = dit
    /\ UNCHANGED <<scanvars, legalvars, last>>

\* what unmarshalRecords of the registry r returned (res): on an error the
\* walk ends, else it goes on with the sub-registries of r and then the rest
Walked(r, res) ==
    /\ dit' = res.d
    /\ err' = res.err
    /\ pending' = IF res.err # NoErr THEN <<>> ELSE r.Registries \o Tail(pending)
    /\ imppc' = IF res.err # NoErr \/ r.Registries \o Tail(pending) = <<>>
                THEN "done" ELSE "walk"

\* registry.unmarshalRecords of the next registry of the walk
UnmarshalRecords ==
    /\ imppc = "walk"
    /\ pending # <<>>
    /\ Walked(Head(pending), unmarshalRecords(dit, smiPeople, Head(pending)))
    /\ before' = dit
    /\ last' = RegCall(Head(pending))
    /\ UNCHANGED <<imp, opened, start, smiPeople, scanvars, legalvars>>

SmiNext == PrimeISO \/ SmiOpen \/ UnmarshalRecords

SpecSMI == ImportInit /\ [][SmiNext]_vars

\* the walk step by step ends where LoadSMIRegistry as one call ends
WalkIsLoad ==
    [][(imppc' = "done" /\ (imppc = "walk" \/ opened' # opened)) =>
           /\ dit' = LoadSMIRegistry(start', imp'.smifile).d
           /\ err' = LoadSMIRegistry(start', imp'.smifile).err]_vars

----------------------------------------------------------------------------
(* Priming: the three catalogues, DIT.Prime on nodes of the caller's, and   *)
(* the curated supplement                                                  *)

\* the root indexes DIT.Prime is called with: two it serves and one it
\* refuses
RootsTried == {1, 2, 3}

\* the node lists DIT.Prime is called with besides the catalogues: paths
\* that share ancestors, a path given twice, a path of another root, one
\* that is not closed, and a dotted path
NodeLists ==
    { << entASN, Notation(<<NaNF(id_iso, 1), NaNF(id_identified_organization, 3),
                           NaNF(id_dod, 6), NaNF(id_internet, 1), NaNF(NoId, 2)>>) >>,
      << Notation(<<NaNF(id_iso, 1), NaNF(NoId, 2)>>),
         Notation(<<NaNF(id_iso, 1), NaNF(NoId, 2)>>) >>,
      << Unclosed(<<NaNF(id_iso, 1), NaNF(NoId, 0)>>),
         Notation(<<NaNF(id_joint_iso_itu_t, 2), NaNF(id_ds, 5), NaNF(NoId, 4)>>) >>,
      << Numeric(entDotPfx \o <<56521>>) >> }

\* RADIT.PrimeITUT
PrimeITUT ==
    /\ imppc = "idle"
    /\ last.k < MaxCalls
    /\ dit' = Prime(dit, 0, ituTree)
    /\ last' = Call("Prime", 0, ituTree)
    /\ UNCHANGED <<err, scanvars, legalvars, impvars>>

\* RADIT.PrimeJointISOITUT
PrimeJointISOITUT ==
    /\ imppc = "idle"
    /\ last.k < MaxCalls
    /\ dit' = Prime(dit, 2, jiiTree)
    /\ last' = Call("Prime", 2, jiiTree)
    /\ UNCHANGED <<err, scanvars, legalvars, impvars>>

\* DIT.Prime(n, nodes...)
PrimeCall ==
    /\ imppc = "idle"
    /\ last.k < MaxCalls
    /\ \E n \in RootsTried, nodes \in NodeLists :
         /\ dit' = Prime(dit, n, nodes)
         /\ last' = Call("Prime", n, nodes)
    /\ UNCHANGED <<err, scanvars, legalvars, impvars>>

\* penRegistry.loadJesseCoretta, as the flat import runs it on meeting 56521
Supplement ==
    /\ imppc = "idle"
    /\ last.k < MaxCalls
    /\ dit' = loadJesseCoretta(dit)
    /\ last' = Call("loadJesseCoretta", 1, JesseOID)
    /\ UNCHANGED <<err, scanvars, legalvars, impvars>>

PrimeNext == PrimeITUT \/ PrimeISO \/ PrimeJointISOITUT \/ PrimeCall \/ Supplement

SpecPrime == ImportInit /\ [][PrimeNext]_vars


----------------------------------------------------------------------------
(* The flat-registry scanner: what the lines read so far ought to yield *)

\* the lines of fed that are not blank, in order
NonBlank == SelectSeq(fed, LAMBDA line : ~IsBlank(line))

\* how many of the first i lines of fed are not blank
NonBlankBefore(i) == Cardinality({j \in 1..i : ~IsBlank(fed[j])})

\* fed is complete groups only: four non-blank lines each, the first a
\* number, blank lines nowhere but between groups
WellGrouped ==
    /\ Len(NonBlank) % 4 = 0
    /\ \A i \in 1..Len(fed) : IsBlank(fed[i]) => NonBlankBefore(i) % 4 = 0
    /\ \A g \in 1..(Len(NonBlank) \div 4) : IsNumber(NonBlank[4 * g - 3])

\* the record group g of fed spells out
GroupRecord(g) ==
    [Decimal |-> Sscanf(NonBlank[4 * g - 3], NoDecimal),
     Name    |-> trimS(NonBlank[4 * g - 2]),
     Contact |-> trimS(NonBlank[4 * g - 1]),
     Email   |-> trimS(NonBlank[4 * g])]

GroupRecords == [g \in 1..(Len(NonBlank) \div 4) |-> GroupRecord(g)]

\* C1: the scanner starts in the Decimal state, so whenever the lines read
\* after the header are k complete four-line groups, the records emitted are
\* exactly those k groups, field by field and in order.
C1_GroupsYieldRecords ==
    (scanpc = "scan" /\ WellGrouped) => Numbers = GroupRecords

\* C2: two groups read one right after the other, with no blank line
\* anywhere, are emitted as two records, each with the decimal, name,
\* contact and email of its own group.
C2_AdjacentGroupsStayApart ==
    (scanpc = "scan" /\ WellGrouped /\ Len(fed) = 8 /\ Len(NonBlank) = 8)
        => (Len(Numbers) = 2 /\ Numbers[1] = GroupRecord(1) /\ Numbers[2] = GroupRecord(2))

\* C3: blank lines read when no field of a record has been read, those right
\* after the header included, emit nothing and leave the scanner where it
\* was; and there are never more records than groups, so never more than
\* non-blank lines.
C3_BlankLinesEmitNothing ==
    scanpc = "scan" =>
        /\ (Len(NonBlank) = 0 => (Numbers = <<>> /\ ent = InitialPen))
        /\ Len(Numbers) <= Len(NonBlank)

\* C26: no group whose decimal line was read is lost.  Once a record has
\* been emitted the scanner holds a decimal only if it read one from a
\* line, so when the input has ended no such decimal is left in the
\* scanner: the group it began was emitted.
C26_NoGroupLostAtTheEnd ==
    (scanpc = "done" /\ Numbers # <<>>) => ent.Decimal = NoDecimal

\* what does hold: a group is left in the scanner at the end only if the
\* last line read was not blank
C26_LostOnlyWithoutBlankLine ==
    (scanpc = "done" /\ Numbers # <<>> /\ ent.Decimal # NoDecimal) =>
        (fed # <<>> /\ ~IsBlank(fed[Len(fed)]))


----------------------------------------------------------------------------
(* Import: authorities, the tree, priming, obsolete records, the order *)

\* the authorities this Import run appended
RunAuthorities == (Len(start.aths) + 1)..Len(dit.aths)

\* C4: within one Import run at most one authority exists per source key
\* (a person ID, an expert), and it is in the authority collection once,
\* whether the run loads the nested registry once or twice.
C4_OneAuthorityPerKey ==
    \A i, j \in RunAuthorities :
        (dit.aths[i].kind # "pen" /\ dit.aths[j].kind # "pen"
            /\ dit.aths[i].key = dit.aths[j].key) => i = j

\* C5: no registration has two children with the same number form, and the
\* path of every child is the path of its parent and its own arc.
C5_ArcsUniqueBeneathParent ==
    \A p \in DOMAIN dit.regs :
        LET ks == dit.regs[p].kids
        IN  /\ \A i, j \in 1..Len(ks) :
                 dit.regs[ks[i]].n = dit.regs[ks[j]].n => i = j
            /\ \A i \in 1..Len(ks) :
                 dit.regs[ks[i]].dot = Append(dit.regs[p].dot, dit.regs[ks[i]].n)

\* the tree was primed when Import was called
PrimedAtStart == start.tree[2] # NoReg /\ Walk(start.regs, start.tree[2], entDotPfx) # NoReg

IsPrefix(a, b) == Len(a) <= Len(b) /\ SubSeq(b, 1, Len(a)) = a

\* no registration lies beneath 1.3.6.1.4.1
NoDescendants(d) ==
    \A r \in DOMAIN d.regs :
        ~(IsPrefix(entDotPfx, d.regs[r].dot) /\ d.regs[r].dot # entDotPfx)

\* the path a registry of a decoded file names, none when it names none
RegistryPath(r) ==
    DotArcs(descriptionAndOID(IF r.Title # <<>> /\ r.Description = <<>>
                              THEN r.Title ELSE r.Description).dot)

\* the file of key is one whose allocations go beneath 1.3.6.1.4.1: loaded
\* into a primed tree, it is applied without error and leaves
\* registrations there
Targets(key) ==
    LET res == Load(PrimedISO(dit.profile), key, imp[key])
    IN  res.err = NoErr /\ ~NoDescendants(res.d)

\* C6: an import into a tree that was not primed, of one source whose
\* allocations go beneath 1.3.6.1.4.1, ends with the not-primed error and
\* has created nothing beneath that arc, the nested registry like the flat.
C6_UnprimedImportFails ==
    (imppc = "done" /\ ~PrimedAtStart /\ Len(opened) = 1 /\ Targets(opened[1]))
        => (err = ErrNotPrimed /\ NoDescendants(dit))

\* the records of a list of registries and of all beneath them, each with
\* the path of its registry
RECURSIVE LeafRecords(_)
LeafRecords(rs) ==
    IF rs = <<>> THEN {}
    ELSE LET r == Head(rs)
         IN  { [path |-> RegistryPath(r), rec |-> r.Records[i]] :
                   i \in 1..Len(r.Records) }
             \cup LeafRecords(r.Registries) \cup LeafRecords(Tail(rs))

HasNoteOne(rec) ==
    \E i \in 1..Len(rec.XRef) : rec.XRef[i].Type = "note" /\ rec.XRef[i].Data = sOne

\* the registration at a path of the iso root, nil when there is none
At(d, path) == IF d.tree[2] = NoReg THEN NoReg ELSE Walk(d.regs, d.tree[2], path)

\* a registration that is obsolete and was given nothing else
ObsoleteAndBare(d, r) ==
    /\ r # NoReg
    /\ d.regs[r].status = OBSOLETE
    /\ d.regs[r].range = <<>>
    /\ d.regs[r].uri = <<>>
    /\ d.regs[r].info = <<>>
    /\ d.regs[r].auths = <<>>

\* C7: once the smifile is applied without error, every leaf record of it
\* that carries a note cross-reference with code 1 has a registration at
\* its path, marked obsolete and not enriched any further.
C7_NoteOneMarksObsolete ==
    (imppc = "done" /\ err = NoErr /\ opened = <<"smifile">>) =>
        \A lr \in LeafRecords(imp.smifile.smi.Registries) :
            (HasNoteOne(lr.rec) /\ lr.path # <<>> /\ processValue(lr.rec).err = NoErr)
                => ObsoleteAndBare(dit, At(dit, Append(lr.path,
                                       NumberForm(processValue(lr.rec).number))))


\* the children of every registration of d are in strictly ascending order
\* of number form
StrictlyAscending(d) ==
    \A p \in DOMAIN d.regs :
        \A i, j \in 1..Len(d.regs[p].kids) :
            i < j => d.regs[d.regs[p].kids[i]].n < d.regs[d.regs[p].kids[j]].n

\* the same, equal number forms allowed next to each other
Ascending(d) ==
    \A p \in DOMAIN d.regs :
        \A i, j \in 1..Len(d.regs[p].kids) :
            i < j => d.regs[d.regs[p].kids[i]].n <= d.regs[d.regs[p].kids[j]].n

\* C11: after Write with sortByNumberForm true, the children of every
\* registration of every root are in strictly ascending order of number
\* form, whatever priming and the imports did before.
C11_SortedStrictlyAscending ==
    [][(last'.k # last.k /\ last'.op = "WriteSorted") => StrictlyAscending(dit')]_vars

\* what does hold after such a Write: ascending order, equal number forms
\* side by side
C11_SortedAscending ==
    [][(last'.k # last.k /\ last'.op = "WriteSorted") => Ascending(dit')]_vars

\* the records of the flat file of this run with the decimal 56521
JesseRecords ==
    LET nums == ScanAll(imp.penfile.lines).Numbers
    IN  {nums[i] : i \in {j \in 1..Len(nums) : nums[j].Decimal = JesseDecimal}}

\* a flat import alone, into a tree primed for iso, went through
FlatImported ==
    imppc = "done" /\ err = NoErr /\ PrimedAtStart /\ opened = <<"penfile">>

\* the registration r carries the email of e: on an authority of its own
\* under the dedicated profile, inline under the combined one
BearsEmail(r, e) ==
    IF dit.profile = "dedicated"
    THEN \E i \in 1..Len(dit.regs[r].auths) :
             dit.aths[dit.regs[r].auths[i]].email = e.Email
    ELSE dit.regs[r].cEmail = e.Email

\* C12: after priming root 1 with the enterprise arc and importing the flat
\* record 56521, ACME, Jane Doe and its email, there is a registration at
\* 1.3.6.1.4.1.56521 whose identifier is "56521" and which has an authority
\* (dedicated) or an inline contact (combined) with that email.
C12_FlatRecordNamedByNumber ==
    FlatImported =>
        \A e \in JesseRecords :
            LET r == At(dit, Append(entDotPfx, JesseDecimal))
            IN  /\ r # NoReg
                /\ dit.regs[r].ident = <<"5", "6", "5", "2", "1">>
                /\ BearsEmail(r, e)

\* what does hold of that registration: it is there, with the email
C12_FlatRecordContact ==
    FlatImported =>
        \A e \in JesseRecords :
            LET r == At(dit, Append(entDotPfx, JesseDecimal))
            IN  r # NoReg /\ BearsEmail(r, e)

\* the keys of the ImportList, in the order Import looks them up
Specified == SelectSeq(ImportOrder, LAMBDA key : key \in imp.keys)

\* what the last loader called was given, and what it returned
LastLoad == Load(before, opened[Len(opened)], imp[opened[Len(opened)]])

\* every registration of d is still in the tree, at its path
Kept(d) ==
    /\ Len(d.regs) <= Len(dit.regs)
    /\ \A r \in DOMAIN d.regs : dit.regs[r].dot = d.regs[r].dot

\* C8: Import calls the loaders of the keys it was given one after another
\* in the order smifile, ldapfile, penfile; a loader is called only while no
\* error was returned; the first error ends the run and is the error
\* Import returns; what the loaders built up to then stays in the tree.
C8_SourcesInOrderUntilError ==
    /\ IsPrefix(opened, Specified)
    /\ (imppc \in ImportKeys => err = NoErr)
    /\ (err # NoErr => imppc = "done")
    /\ (imppc = "done" /\ err = NoErr /\ ~imp.nil => opened = Specified)
    /\ (opened # <<>> => (err = LastLoad.err /\ Kept(LastLoad.d) /\ Kept(before)))

\* the second of three sources failed after it had created registrations:
\* the third was not opened
C8_Witness ==
    /\ imppc = "done"
    /\ err = ErrAllocation
    /\ imp.keys = ImportKeys
    /\ opened = <<"smifile", "ldapfile">>
    /\ Len(dit.regs) > Len(before.regs)
    /\ Len(before.regs) > Len(start.regs)

\* C25: Import called with a nil list returns an error and loads nothing:
\* no source is opened and the tree is as it was.
C25_NilListIsAnError ==
    [][(imppc = "idle" /\ imppc' = "done" /\ imp'.nil) =>
           (err' # NoErr /\ opened' = <<>> /\ dit' = dit)]_vars

\* what does hold: Import called with a nil list loads nothing
C25_NilListLoadsNothing ==
    [][(imppc = "idle" /\ imppc' = "done" /\ imp'.nil) =>
           (opened' = <<>> /\ dit' = dit)]_vars


----------------------------------------------------------------------------
(* The nested registry, registry by registry *)

\* the registry names a path
HasPath(r) == descriptionAndOID(srcInfo(r)).dot # <<>>

\* the label path of a registry: its description split at the dots
LabelPath(r) == split(descriptionAndOID(srcInfo(r)).desc, ".")

\* the step just made was unmarshalRecords of last.nodes[1], on the tree
\* `before`
Applied ==
    /\ last.op = "unmarshalRecords"
    /\ last.d = before
    /\ imppc \in {"walk", "done"}
    /\ HasPath(last.nodes[1])

\* every identifier of d0 that is not empty is the same in d1
IdentifiersKept(d0, d1) ==
    \A i \in DOMAIN d0.regs :
        d0.regs[i].ident # <<>> => d1.regs[i].ident = d0.regs[i].ident

\* C13: a registration that has an identifier keeps it through every
\* unmarshalRecords of a nested import: neither the label of a registry
\* description nor the number of a record replaces it.
C13_IdentifierNotOverwritten ==
    [][imppc = "walk" => IdentifiersKept(dit, dit')]_vars

\* a registry applied to a registration a record had named before: the
\* name stayed, though the description of the registry gives a label
C13_Witness ==
    /\ Applied
    /\ err = NoErr
    /\ Len(LabelPath(last.nodes[1])) = Len(RegistryPath(last.nodes[1]))
    /\ At(before, RegistryPath(last.nodes[1])) # NoReg
    /\ before.regs[At(before, RegistryPath(last.nodes[1]))].ident = <<"a", "-", "b">>
    /\ dit.regs[At(before, RegistryPath(last.nodes[1]))].ident = <<"a", "-", "b">>

\* a value of one of the four forms: a number, lo-hi, lo and up, or a
\* dotted path
Parsable(v) ==
    \/ IsNumber(v)
    \/ IsNumericOID(v)
    \/ hasSfx(v, sAndUp) /\ IsNumber(SubSeq(v, 1, Len(v) - Len(sAndUp)))
    \/ ctns(v, "-") /\ IsNumber(split(v, "-")[1])

\* the arcs the records of r with a parsable value name
ParsableArcs(r) ==
    {NumberForm(processValue(r.Records[i]).number) :
        i \in {j \in 1..Len(r.Records) : Parsable(r.Records[j].Value)}}

\* the arcs of the children p has in d1 and had not in d0
NewArcs(d0, d1, p) ==
    {d1.regs[d1.regs[p].kids[i]].n :
        i \in {j \in 1..Len(d1.regs[p].kids) : d1.regs[p].kids[j] > Len(d0.regs)}}

\* the records of r that are neither obsolete nor unparsable all have a
\* registration beneath p
AllProcessed(d, p, r) ==
    \A i \in 1..Len(r.Records) :
        (Parsable(r.Records[i].Value) /\ ~obsolete(r.Records[i]))
            => ChildGet(d.regs, p, NumberForm(processValue(r.Records[i]).number)) # NoReg

Allocated(d, r) == Allocate(ISO(d).regs, ISO(d).tree[2], Numeric(RegistryPath(r)))

\* the registration allocated for r has another dot notation than the
\* path r names
Mismatch(d, r) ==
    HasPath(r) /\ DotNotation(Allocated(d, r).regs, Allocated(d, r).reg) # RegistryPath(r)

\* C15: when the dot notation of the registration allocated for a registry
\* differs from the path of the registry, unmarshalRecords returns the
\* allocation error, and it does so before anything of the registry is
\* applied: the tree holds what the allocation left, the authorities
\* are as they were.
C15_MismatchAbortsFirst ==
    [][(imppc = "walk" /\ Mismatch(dit, Head(pending))) =>
           /\ err' = ErrAllocation
           /\ dit'.regs = Allocated(dit, Head(pending)).regs
           /\ dit'.aths = dit.aths]_vars

\* what does hold on a mismatch: the walk ends with an error
C15_MismatchAborts ==
    [][(imppc = "walk" /\ Mismatch(dit, Head(pending))) =>
           (err' # NoErr /\ imppc' = "done")]_vars

\* the registration of the registry r in the tree d
RegistryNode(d, r) == At(d, RegistryPath(r))

\* the types of cross-reference whose dispatch may set the provenance URI
\* of a registry: those of the registry itself, and of its notes, where
\* "registry" is turned into "uri"
SetsURI(xr) ==
    xr.Data # <<>> /\ xr.Type \in {"rfc", "draft", "rfc-errata", "uri", "registry"}

\* the cross-references of the notes of r, in order
RECURSIVE NoteXRefs(_)
NoteXRefs(ns) == IF ns = <<>> THEN <<>> ELSE Head(ns).XRef \o NoteXRefs(Tail(ns))

\* the cross-reference at place i of r is the last of r to set the URI
LastToSetURI(r, i) ==
    /\ \A j \in (i + 1)..Len(r.XRef) : ~SetsURI(r.XRef[j])
    /\ \A j \in 1..Len(NoteXRefs(r.Note)) : ~SetsURI(NoteXRefs(r.Note)[j])

\* the URI a generic-URI cross-reference is to leave: the address, and the
\* label after it when there is one
AddressAndLabel(xr) ==
    IF xr.Content # <<>> THEN xr.Data \o <<" ">> \o xr.Content ELSE xr.Data

\* C16: a cross-reference of type uri with an address, dispatched on the
\* registration of a registry, leaves the address as its provenance URI,
\* with the label after it when the cross-reference has one and alone when
\* it has none.
C16_AddressBecomesURI ==
    [][(imppc = "walk" /\ HasPath(Head(pending)) /\ err' = NoErr) =>
           \A i \in 1..Len(Head(pending).XRef) :
               (Head(pending).XRef[i].Type = "uri" /\ Head(pending).XRef[i].Data # <<>>
                   /\ LastToSetURI(Head(pending), i))
               => dit'.regs[RegistryNode(dit', Head(pending))].uri
                      = AddressAndLabel(Head(pending).XRef[i])]_vars

\* what does hold: the same of the cross-references that have a label
C16_LabelledAddressBecomesURI ==
    [][(imppc = "walk" /\ HasPath(Head(pending)) /\ err' = NoErr) =>
           \A i \in 1..Len(Head(pending).XRef) :
               (Head(pending).XRef[i].Type = "uri" /\ Head(pending).XRef[i].Data # <<>>
                   /\ Head(pending).XRef[i].Content # <<>>
                   /\ LastToSetURI(Head(pending), i))
               => dit'.regs[RegistryNode(dit', Head(pending))].uri
                      = AddressAndLabel(Head(pending).XRef[i])]_vars

\* the registration c of d has the authority of the person key attached as
\* the profile has it: by reference (dedicated) or by copy (combined)
Attached(d, ppl, c, key) ==
    IF d.profile = "dedicated"
    THEN \E i \in 1..Len(d.regs[c].auths) : d.regs[c].auths[i] = ppl[key]
    ELSE /\ d.regs[c].cEmail = d.aths[ppl[key]].email
         /\ d.regs[c].cCN = d.aths[ppl[key]].cn
         /\ d.regs[c].cO = d.aths[ppl[key]].o

\* the person cross-references of xrs that name a gathered authority
PersonKeys(xrs, ppl) ==
    {xrs[i].Data : i \in {j \in 1..Len(xrs) : xrs[j].Type = "person"
                                               /\ xrs[j].Data \in DOMAIN ppl}}

\* the records of r that are not skipped
Kept20(r) ==
    {i \in 1..Len(r.Records) :
        /\ processValue(r.Records[i]).err = NoErr
        /\ ~obsolete(r.Records[i])
        /\ NumberForm(processValue(r.Records[i]).number) >= 0}

\* the registration of the record at place i of r
RecordNode(d, r, i) ==
    ChildGet(d.regs, RegistryNode(d, r), NumberForm(processValue(r.Records[i]).number))

\* C17: a person cross-reference that names a gathered authority has that
\* authority attached to the registration it annotates, as the profile has
\* it, be it on a leaf record, on the registry itself or in a note of the
\* registry.
C17_PersonAttachedEverywhere ==
    [][(imppc = "walk" /\ HasPath(Head(pending)) /\ err' = NoErr) =>
           /\ \A key \in PersonKeys(Head(pending).XRef, smiPeople) :
                  Attached(dit', smiPeople, RegistryNode(dit', Head(pending)), key)
           /\ \A key \in PersonKeys(NoteXRefs(Head(pending).Note), smiPeople) :
                  Attached(dit', smiPeople, RegistryNode(dit', Head(pending)), key)
           /\ \A i \in Kept20(Head(pending)) :
                  RecordNode(dit, Head(pending), i) = NoReg =>
                      \A key \in PersonKeys(Head(pending).Records[i].XRef, smiPeople) :
                          Attached(dit', smiPeople, RecordNode(dit', Head(pending), i), key)]_vars

\* what does hold: the person of a leaf record whose registration the
\* step made is attached to it
C17_PersonAttachedToNewLeaf ==
    [][(imppc = "walk" /\ HasPath(Head(pending)) /\ err' = NoErr) =>
           \A i \in Kept20(Head(pending)) :
               RecordNode(dit, Head(pending), i) = NoReg =>
                   \A key \in PersonKeys(Head(pending).Records[i].XRef, smiPeople) :
                       Attached(dit', smiPeople, RecordNode(dit', Head(pending), i), key)]_vars

KidsAscending(d, c) ==
    \A i, j \in 1..Len(d.regs[c].kids) :
        i < j => d.regs[d.regs[c].kids[i]].n <= d.regs[d.regs[c].kids[j]].n

\* C19: when registry.unmarshal returns for a registry without an error,
\* the children of its registration, those its sub-registries allocated
\* included, are in ascending order of number form.
C19_SortedAfterSubRegistries ==
    [][(imppc = "walk" /\ HasPath(Head(pending))
          /\ registryUnmarshal(dit, smiPeople, Head(pending)).err = NoErr) =>
           KidsAscending(registryUnmarshal(dit, smiPeople, Head(pending)).d,
                         RegistryNode(registryUnmarshal(dit, smiPeople, Head(pending)).d,
                                      Head(pending)))]_vars

\* what does hold: the children are in order when unmarshalRecords
\* returns, before the sub-registries are walked
C19_SortedAfterRecords ==
    [][(imppc = "walk" /\ HasPath(Head(pending)) /\ err' = NoErr) =>
           KidsAscending(dit', RegistryNode(dit', Head(pending)))]_vars

\* the record at place i of r is the last of r that names its arc
LastOfArc(r, i) ==
    \A j \in (i + 1)..Len(r.Records) :
        j \in Kept20(r) =>
            NumberForm(processValue(r.Records[j]).number)
                # NumberForm(processValue(r.Records[i]).number)

\* C20: every record that is not skipped has its range terminus and its
\* person linkage on the registration at its arc, whether the record made
\* that registration or found it there.
C20_RecordAppliedToExisting ==
    [][(imppc = "walk" /\ HasPath(Head(pending)) /\ err' = NoErr) =>
           \A i \in Kept20(Head(pending)) :
               /\ (processValue(Head(pending).Records[i]).rangeTerminus # <<>>
                      /\ LastOfArc(Head(pending), i))
                  => dit'.regs[RecordNode(dit', Head(pending), i)].range
                         = processValue(Head(pending).Records[i]).rangeTerminus
               /\ \A key \in PersonKeys(Head(pending).Records[i].XRef, smiPeople) :
                      Attached(dit', smiPeople, RecordNode(dit', Head(pending), i), key)]_vars

\* what does hold: the same of the records whose registration the step
\* made, each the first of its arc
C20_RecordAppliedToNew ==
    [][(imppc = "walk" /\ HasPath(Head(pending)) /\ err' = NoErr) =>
           \A i \in Kept20(Head(pending)) :
               (RecordNode(dit, Head(pending), i) = NoReg
                   /\ \A j \in 1..(i - 1) : j \in Kept20(Head(pending)) =>
                          NumberForm(processValue(Head(pending).Records[j]).number)
                              # NumberForm(processValue(Head(pending).Records[i]).number))
               => /\ processValue(Head(pending).Records[i]).rangeTerminus # <<>>
                     => dit'.regs[RecordNode(dit', Head(pending), i)].range
                            = processValue(Head(pending).Records[i]).rangeTerminus
                  /\ \A key \in PersonKeys(Head(pending).Records[i].XRef, smiPeople) :
                         Attached(dit', smiPeople, RecordNode(dit', Head(pending), i), key)]_vars

\* the cross-reference marks its record obsolete: a note with data 1, or a
\* text that reads obsolete in any case
MarksObsolete(xr) ==
    \/ xr.Type = "note" /\ xr.Data = sOne
    \/ xr.Type = "text" /\ lc(xr.Content) = sObsolete

\* C21: record.obsolete is true of a record exactly when one of its
\* cross-references, at whatever place in the list, is a note with data 1
\* or a text reading obsolete.
C21_ObsoleteAtAnyPlace ==
    (imppc = "walk" /\ pending # <<>>) =>
        \A i \in 1..Len(Head(pending).Records) :
            obsolete(Head(pending).Records[i])
                <=> \E j \in 1..Len(Head(pending).Records[i].XRef) :
                        MarksObsolete(Head(pending).Records[i].XRef[j])

\* what does hold: the first note or text of the list decides
C21_FirstNoteOrTextDecides ==
    (imppc = "walk" /\ pending # <<>>) =>
        \A i \in 1..Len(Head(pending).Records) :
            obsolete(Head(pending).Records[i])
                <=> \E j \in 1..Len(Head(pending).Records[i].XRef) :
                        /\ MarksObsolete(Head(pending).Records[i].XRef[j])
                        /\ \A k \in 1..(j - 1) :
                               Head(pending).Records[i].XRef[k].Type \notin {"note", "text"}

\* the piece of an expert field names an expert: something is left of it
\* before " (" once it is condensed and trimmed
NamesExpert(piece) ==
    IF idxParen(trimS(CondenseWHSP(piece))) # 0
    THEN idxParen(trimS(CondenseWHSP(piece))) > 1
    ELSE trimS(CondenseWHSP(piece)) # <<>>

\* the keys under which the experts the registry r names are gathered
ExpertKeys(r) ==
    {trimS(split(r.Expert, ",")[i]) :
        i \in {j \in 1..Len(split(r.Expert, ",")) : NamesExpert(split(r.Expert, ",")[j])}}

\* the authorities the step made that are experts
NewExperts ==
    {a \in (Len(dit.aths) + 1)..Len(dit'.aths) : dit'.aths[a].kind = "expert"}

\* C23: every registry applied has, among the authorities of its
\* registration, that of each expert its expert field names, be the expert
\* first named by it or by a registry before it; and gathering makes one
\* authority for an expert, however many registries name it.
C23_EveryNamedExpertLinked ==
    [][/\ (imppc = "walk" /\ HasPath(Head(pending)) /\ err' = NoErr) =>
              \A key \in ExpertKeys(Head(pending)) :
                  /\ key \in DOMAIN smiPeople
                  /\ \E i \in 1..Len(dit'.regs[RegistryNode(dit', Head(pending))].auths) :
                         dit'.regs[RegistryNode(dit', Head(pending))].auths[i] = smiPeople[key]
        /\ \A a, b \in NewExperts : dit'.aths[a].key = dit'.aths[b].key => a = b]_vars

\* what does hold: the experts a registry is the first to name are linked,
\* and an expert is made an authority once
C23_FirstNamedExpertLinked ==
    [][/\ (imppc = "walk" /\ HasPath(Head(pending)) /\ err' = NoErr) =>
              \A i \in 1..Len(Head(pending).experts) :
                  \E j \in 1..Len(dit'.regs[RegistryNode(dit', Head(pending))].auths) :
                      dit'.regs[RegistryNode(dit', Head(pending))].auths[j]
                          = Head(pending).experts[i]
        /\ \A a, b \in NewExperts : dit'.aths[a].key = dit'.aths[b].key => a = b]_vars

\* the description the missing-description table gives the registry regi,
\* its own when the table does not name it
TableDescription(regi) ==
    IF regi.ID \in DOMAIN missingRegistryURNs
    THEN missingRegistryURNs[regi.ID] ELSE regi.Description

\* C24: when a decoded file begins to be walked, each of its top-level
\* registries is walked with the description the table has for its ID, and
\* with its own when its ID is not in the table; its path is derived
\* from that description.
C24_TableDescriptionUsed ==
    [][(opened' # opened /\ imppc' = "walk") =>
           \A i \in 1..Len(pending') :
               /\ pending'[i].Description = TableDescription(imp'.smifile.smi.Registries[i])
               /\ RegistryPath(pending'[i])
                      = RegistryPath([imp'.smifile.smi.Registries[i] EXCEPT
                            !.Description = TableDescription(imp'.smifile.smi.Registries[i])])]_vars

\* what does hold: the registries the table does not name keep their own
\* description
C24_OwnDescriptionKept ==
    [][(opened' # opened /\ imppc' = "walk") =>
           \A i \in 1..Len(pending') :
               imp'.smifile.smi.Registries[i].ID \notin DOMAIN missingRegistryURNs
                   => pending'[i].Description = imp'.smifile.smi.Registries[i].Description]_vars

----------------------------------------------------------------------------
(* Allocation through Prime and the supplement *)

\* the paths of the registrations of d
Paths(d) == {d.regs[r].dot : r \in DOMAIN d.regs}

\* the number forms of a notation, in order
Arcs(oid) == [i \in 1..Len(oid.nanf) |-> oid.nanf[i].n]

\* the root n and every path Allocate is to get or create for the nodes
\* that are well formed and of root n
Wanted(n, nodes) ==
    {<<n>>} \cup
    UNION { {SubSeq(Arcs(nodes[i]), 1, k) : k \in 1..Len(nodes[i].nanf)} :
              i \in {j \in DOMAIN nodes : WellFormed(nodes[j]) /\ nodes[j].nanf[1].n = n} }

\* the call `last` records, made once more on the tree as it is now
Again ==
    IF last.op = "Prime" THEN Prime(dit, last.n, last.nodes) ELSE loadJesseCoretta(dit)

\* C9: allocation gets or creates.  No two registrations have the same
\* path, so an ancestor shared by several catalogue entries or by the
\* supplement exists once; the call just made, made again, changes
\* nothing; and the call added no more registrations than paths it asked
\* for that were missing.
C9_AllocationGetsOrCreates ==
    /\ \A r1, r2 \in DOMAIN dit.regs :
         dit.regs[r1].dot = dit.regs[r2].dot => r1 = r2
    /\ last.op # "none" =>
         /\ Again = dit
         /\ IF last.n \in 0..2
            THEN /\ Paths(dit) = Paths(last.d) \cup Wanted(last.n, last.nodes)
                 /\ Len(dit.regs) - Len(last.d.regs)
                      <= Cardinality(Wanted(last.n, last.nodes) \ Paths(last.d))
            ELSE dit = last.d

\* the supplement loaded a second time: it added nothing to the ten
\* registrations of the first time
C9_Witness ==
    /\ last.op = "loadJesseCoretta"
    /\ last.k > 1
    /\ Len(dit.regs) = Len(last.d.regs)
    /\ Len(dit.regs) = 10
    /\ At(dit, entDotPfx \o <<56521, 101, 3>>) # NoReg

\* C22: no failed allocation is dropped.  After a Prime on one of the three
\* roots every node it was given is found in the tree by its path, or the
\* failure was reported as an error.
C22_FailedAllocationReported ==
    (last.op = "Prime" /\ last.n \in 0..2) =>
        \A i \in DOMAIN last.nodes :
            Arcs(last.nodes[i]) \in Paths(dit) \/ err # NoErr

\* what does hold: the nodes that are well formed and of the root primed
\* are found
C22_WellFormedFound ==
    (last.op = "Prime" /\ last.n \in 0..2) =>
        \A i \in DOMAIN last.nodes :
            (WellFormed(last.nodes[i]) /\ last.nodes[i].nanf[1].n = last.n)
                => Arcs(last.nodes[i]) \in Paths(dit)

----------------------------------------------------------------------------
(* The legalizer *)

\* C10: whatever legalizeIdentifier is given, what it returns is empty or
\* an identifier.
C10_LegalizedIsEmptyOrIdentifier ==
    lpc = "ret" => (lout = <<>> \/ IsIdentifier(lout))

\* a name with an underscore and a capital, returned hyphenated and folded
C10_Witness ==
    /\ lpc = "ret"
    /\ lin = <<"a", "_", "B">>
    /\ ~IsIdentifier(lin)
    /\ lout = <<"a", "-", "b">>

====
